---- MODULE Spec2Model ----
(***************************************************************************)
(* Model of the user administration UI: the creation form                  *)
(* (src/pages/user.tsx, UserCreationForm), the list page that hosts it     *)
(* (HomePage), the user service (src/services/user.service.ts) and the     *)
(* transport client (src/services/api.service.ts, fetchWithConfig).        *)
(*                                                                         *)
(* A JavaScript string is a sequence of one-character strings; a JSON      *)
(* value is a record tagged with its typeof: [t |-> "string", v |-> s],    *)
(* [t |-> "object", v |-> f], [t |-> "array", v |-> seq], and              *)
(* [t |-> "undefined"].  An object (form cleanedData, request payload) is  *)
(* a function whose DOMAIN is the set of keys it has.                      *)
(***************************************************************************)
EXTENDS Integers, Sequences, FiniteSets, TLC

VARIABLES
    formData,        \* useState<UserFormData>(initialFormState)
    metadataKey,     \* draft key of the metadata editor
    metadataValue,   \* draft value of the metadata editor
    tag,             \* draft of the tag editor
    isLoading,       \* form busy flag
    error,           \* form error message, Null when none
    success,         \* form success banner
    imagePreview,    \* preview of the uploaded picture, Null when none
    users,           \* HomePage in-memory list
    showCreateForm,  \* HomePage: the creation form is mounted
    inflight,        \* the outstanding create requests, oldest first
    requests,        \* every POST, PUT and PATCH handed to the transport, in order
    userData,        \* argument object of a direct service call
    lastSubmit,      \* what the last run of handleSubmit saw and decided
    edits,           \* number of form edits so far (bounded)
    searchTerm,      \* HomePage: text of the search box
    loading,         \* HomePage: the list is being loaded
    homeError,       \* HomePage error message, Null when none
    listCall,        \* the getAllUsers call of fetchUsers: pending, loaded, failed
    deletes,         \* the outstanding delete requests, by uid
    lastDelete,      \* what the last run of handleDeleteUser came to
    reads,           \* the outstanding FileReader reads of the form
    lastUpload,      \* what the last run of handleImageUpload decided
    call,            \* one fetchWithConfig call of the transport client
    limit,           \* number of write requests this run may send (bounded)
    getAll           \* one getAllUsers call of the user service

vars == <<formData, metadataKey, metadataValue, tag, isLoading, error, success,
          imagePreview, users, showCreateForm, inflight, requests, userData,
          lastSubmit, edits, searchTerm, loading, homeError, listCall,
          deletes, lastDelete, reads, lastUpload, call, limit, getAll>>

\* the list page apart from its list and its form
pageVars == <<searchTerm, loading, homeError, listCall, deletes, lastDelete>>

formVars == <<formData, metadataKey, metadataValue, tag, isLoading, error,
              success, imagePreview>>

----------------------------------------------------------------------------
(* Bounds *)

MaxLen == 3        \* longest uid drawn for the validation specification
EmailLen == 2      \* longest email drawn for the validation specification
MaxEdits == 3      \* form edits per run
MaxRequests == 1   \* requests per run
MaxDeletes == 1    \* delete requests outstanding at a time
MaxReads == 2      \* file reads outstanding at a time
MaxTags == 3       \* length of the tags sequence an editor run starts from

----------------------------------------------------------------------------
(* Strings *)

Chars == {"a", "1", " ", "\t", "@"}
DigitChars == {"0", "1", "2", "3", "4", "5", "6", "7", "8", "9"}
WhiteSpaceChars == {" ", "\t", "\n", "\r"}

RECURSIVE StringsUpTo(_)
StringsUpTo(n) ==
    IF n = 0 THEN {<<>>}
    ELSE LET shorter == StringsUpTo(n - 1)
         IN  shorter \cup {Append(s, c) : s \in shorter, c \in Chars}

RECURSIVE TrimStart(_)
TrimStart(s) ==
    IF Len(s) = 0 THEN s
    ELSE IF Head(s) \in WhiteSpaceChars THEN TrimStart(Tail(s))
    ELSE s

RECURSIVE TrimEnd(_)
TrimEnd(s) ==
    IF Len(s) = 0 THEN s
    ELSE IF s[Len(s)] \in WhiteSpaceChars THEN TrimEnd(SubSeq(s, 1, Len(s) - 1))
    ELSE s

\* String.prototype.trim
Trim(s) == TrimEnd(TrimStart(s))

\* String.prototype.includes for a one-character needle
Includes(s, c) == \E i \in 1..Len(s) : s[i] = c

\* String.prototype.startsWith
StartsWith(s, prefix) ==
    /\ Len(s) >= Len(prefix)
    /\ SubSeq(s, 1, Len(prefix)) = prefix

\* s.match(/[^0-9]/) is not null
MatchesNonDigit(s) == \E i \in 1..Len(s) : s[i] \notin DigitChars

\* truthiness of a string
StrTruthy(s) == Len(s) > 0

----------------------------------------------------------------------------
(* JSON values *)

Null == "null"
Undefined == [t |-> "undefined"]
JsNull == [t |-> "null"]
Num(n) == [t |-> "number", v |-> n]
Str(s) == [t |-> "string", v |-> s]
Arr(a) == [t |-> "array", v |-> a]
Obj(o) == [t |-> "object", v |-> o]
Bool(b) == [t |-> "boolean", v |-> b]

\* typeof x  (an array is an object, and so is null)
TypeOf(x) == IF x.t \in {"array", "null"} THEN "object" ELSE x.t

\* truthiness: '', 0, null and undefined are falsy, objects and arrays are truthy
Truthy(x) ==
    CASE x.t = "string" -> Len(x.v) > 0
      [] x.t = "number" -> x.v # 0
      [] x.t = "boolean" -> x.v
      [] x.t \in {"undefined", "null"} -> FALSE
      [] OTHER -> TRUE

\* the object without key k
DeleteKey(o, k) == [j \in DOMAIN o \ {k} |-> o[j]]

\* the object with key k set to x
SetKey(o, k, x) == [j \in DOMAIN o \cup {k} |-> IF j = k THEN x ELSE o[j]]

\* JSON.stringify of an object, as the object the receiver decodes: keys whose
\* value is undefined are not written
JsonStringify(o) == [j \in {k \in DOMAIN o : o[k].t # "undefined"} |-> o[j]]

----------------------------------------------------------------------------
(* The creation form: data *)

TextFields == {"name", "given_name", "middle_name", "family_name", "nickname",
               "email", "phone_number", "comment"}

\* metadata is an object of the form: a function from key strings to value
\* strings; the empty object is the function with the empty domain
EmptyObject == [k \in {} |-> <<>>]

initialFormState ==
    [uid |-> <<>>, name |-> <<>>, given_name |-> <<>>, middle_name |-> <<>>,
     family_name |-> <<>>, nickname |-> <<>>, email |-> <<>>,
     phone_number |-> <<>>, comment |-> <<>>, picture |-> <<>>,
     directory |-> <<>>, metadata |-> EmptyObject, tags |-> <<>>]

----------------------------------------------------------------------------
(* The creation form: validateForm *)

MsgUidRequired == "User ID is required"
MsgUidDigits == "User ID must contain at least one non-digit character"
MsgUidWhitespace == "User ID cannot contain whitespace"
MsgEmail == "Please enter a valid email address"

\* variant: the uid is not trimmed before it is compared with ''
UidMissingNoTrim(fd) == ~StrTruthy(fd.uid)

\* !formData.uid || formData.uid.trim() === ''
UidMissing(fd) == ~StrTruthy(fd.uid) \/ Trim(fd.uid) = <<>>

\* variant: the pattern is anchored, /^[^0-9]/
UidAllDigitsAnchored(fd) == ~(Len(fd.uid) > 0 /\ fd.uid[1] \notin DigitChars)

\* !formData.uid.match(/[^0-9]/)
UidAllDigits(fd) == ~MatchesNonDigit(fd.uid)

\* formData.uid.includes(' ')
UidHasWhitespace(fd) == Includes(fd.uid, " ")

\* variant: the email is trimmed before it is tested for presence
EmailInvalidTrimmed(fd) == StrTruthy(Trim(fd.email)) /\ ~Includes(fd.email, "@")

\* formData.email && !formData.email.includes('@')
EmailInvalid(fd) == StrTruthy(fd.email) /\ ~Includes(fd.email, "@")

\* variant: the whitespace rule is tested before the missing-uid rule
ValidateErrorReordered(fd) ==
    IF Includes(fd.uid, " ") THEN MsgUidWhitespace
    ELSE IF ~StrTruthy(fd.uid) \/ Trim(fd.uid) = <<>> THEN MsgUidRequired
    ELSE IF ~MatchesNonDigit(fd.uid) THEN MsgUidDigits
    ELSE IF StrTruthy(fd.email) /\ ~Includes(fd.email, "@") THEN MsgEmail
    ELSE Null

\* the message validateForm passes to setError, Null when it returns true
ValidateError(fd) ==
    IF UidMissing(fd) THEN MsgUidRequired
    ELSE IF UidAllDigits(fd) THEN MsgUidDigits
    ELSE IF UidHasWhitespace(fd) THEN MsgUidWhitespace
    ELSE IF EmailInvalid(fd) THEN MsgEmail
    ELSE Null

validateForm(fd) == ValidateError(fd) = Null

----------------------------------------------------------------------------
(* The creation form: the cleanedData object handleSubmit builds *)

\* formData[f] && formData[f].trim()
KeepsField(fd, f) == StrTruthy(fd[f]) /\ StrTruthy(Trim(fd[f]))

\* variant: the field is stored as typed
CleanedValueRaw(fd, f) == Str(fd[f])

\* the value stored under a kept string field
CleanedValue(fd, f) == Str(Trim(fd[f]))

\* variant: tags and metadata are tested for truthiness only, which an empty
\* array and an empty object pass
CleanedKeysTruthy(fd) ==
    {"uid", "tags", "metadata"}
    \cup {f \in TextFields \cup {"directory", "picture"} : KeepsField(fd, f)}

\* the keys handleSubmit stores in cleanedData
CleanedKeys(fd) ==
    {"uid"}
    \cup {f \in TextFields \cup {"directory", "picture"} : KeepsField(fd, f)}
    \cup (IF Len(fd.tags) > 0 THEN {"tags"} ELSE {})
    \cup (IF DOMAIN fd.metadata # {} THEN {"metadata"} ELSE {})

CleanedData(fd) ==
    [k \in CleanedKeys(fd) |->
        CASE k = "tags" -> Arr(fd.tags)
          [] k = "metadata" -> Obj(fd.metadata)
          [] OTHER -> CleanedValue(fd, k)]

----------------------------------------------------------------------------
(* The user service: createUser, updateUser, patchUser *)

DataImagePrefix == <<"d", "a", "t", "a", ":", "i", "m", "a", "g", "e">>
HttpPrefix == <<"h", "t", "t", "p">>

\* JSON.parse(JSON.stringify(userData)): a copy without the undefined keys
JsonClone(o) == JsonStringify(o)

\* (x as UserDirectory).name
NameOf(x) ==
    IF x.t = "object" /\ "name" \in DOMAIN x.v THEN Str(x.v.name) ELSE Undefined

\* variant: the directory is left as given
ReduceDirectorySkip(d) == d

\* createUser: a truthy directory of type object becomes its name
ReduceDirectory(d) ==
    IF /\ "directory" \in DOMAIN d
       /\ Truthy(d.directory)
       /\ TypeOf(d.directory) = "object"
    THEN SetKey(d, "directory", NameOf(d.directory))
    ELSE d

DigitValue(c) ==
    CASE c = "0" -> 0 [] c = "1" -> 1 [] c = "2" -> 2 [] c = "3" -> 3
      [] c = "4" -> 4 [] c = "5" -> 5 [] c = "6" -> 6 [] c = "7" -> 7
      [] c = "8" -> 8 [] c = "9" -> 9

JsonWhiteSpace == {" ", "\t", "\n", "\r"}

RECURSIVE SkipWs(_)
SkipWs(s) ==
    IF Len(s) > 0 /\ s[1] \in JsonWhiteSpace THEN SkipWs(Tail(s)) ELSE s

ParseFail == [ok |-> FALSE]
Parsed(x, rest) == [ok |-> TRUE, value |-> x, rest |-> rest]

\* a string literal after its opening quote; escapes are not modelled and
\* end the parse, as a raw control character does
RECURSIVE ParseChars(_, _)
ParseChars(s, acc) ==
    IF s = <<>> THEN ParseFail
    ELSE IF s[1] = "\"" THEN Parsed(Str(acc), Tail(s))
    ELSE IF s[1] \in {"\\", "\t", "\n", "\r"} THEN ParseFail
    ELSE ParseChars(Tail(s), Append(acc, s[1]))

\* a number without sign, fraction or exponent
RECURSIVE ParseDigits(_, _)
ParseDigits(s, n) ==
    IF Len(s) > 0 /\ s[1] \in DigitChars
    THEN ParseDigits(Tail(s), 10 * n + DigitValue(s[1]))
    ELSE Parsed(Num(n), s)

ParseLiteral(s, word, x) ==
    IF StartsWith(s, word)
    THEN Parsed(x, SubSeq(s, Len(word) + 1, Len(s)))
    ELSE ParseFail

RECURSIVE ParseValue(_)
RECURSIVE ParseMembers(_, _)
RECURSIVE ParseElements(_, _)

\* one JSON value at the start of text, and the text after it
ParseValue(text) ==
    LET s == SkipWs(text) IN
    IF s = <<>> THEN ParseFail
    ELSE CASE s[1] = "{" ->
                LET r == SkipWs(Tail(s))
                IN  IF Len(r) > 0 /\ r[1] = "}"
                    THEN Parsed(Obj(EmptyObject), Tail(r))
                    ELSE ParseMembers(r, EmptyObject)
           [] s[1] = "[" ->
                LET r == SkipWs(Tail(s))
                IN  IF Len(r) > 0 /\ r[1] = "]"
                    THEN Parsed(Arr(<<>>), Tail(r))
                    ELSE ParseElements(r, <<>>)
           [] s[1] = "\"" -> ParseChars(Tail(s), <<>>)
           [] s[1] = "0" -> Parsed(Num(0), Tail(s))
           [] s[1] \in DigitChars \ {"0"} -> ParseDigits(s, 0)
           [] s[1] = "n" -> ParseLiteral(s, <<"n", "u", "l", "l">>, JsNull)
           [] s[1] = "t" -> ParseLiteral(s, <<"t", "r", "u", "e">>, Bool(TRUE))
           [] s[1] = "f" ->
                ParseLiteral(s, <<"f", "a", "l", "s", "e">>, Bool(FALSE))
           [] OTHER -> ParseFail

\* the members of an object from the key at the start of s on; a repeated key
\* keeps its last value
ParseMembers(s, acc) ==
    IF s = <<>> \/ s[1] # "\"" THEN ParseFail
    ELSE LET k == ParseChars(Tail(s), <<>>) IN
         IF ~k.ok THEN ParseFail
         ELSE LET c == SkipWs(k.rest) IN
              IF c = <<>> \/ c[1] # ":" THEN ParseFail
              ELSE LET v == ParseValue(Tail(c)) IN
                   IF ~v.ok THEN ParseFail
                   ELSE LET e == SkipWs(v.rest)
                            o == SetKey(acc, k.value.v, v.value)
                        IN  IF e = <<>> THEN ParseFail
                            ELSE IF e[1] = "}" THEN Parsed(Obj(o), Tail(e))
                            ELSE IF e[1] = ","
                                 THEN ParseMembers(SkipWs(Tail(e)), o)
                            ELSE ParseFail

\* the elements of an array from the value at the start of s on
ParseElements(s, acc) ==
    LET v == ParseValue(s) IN
    IF ~v.ok THEN ParseFail
    ELSE LET e == SkipWs(v.rest)
             a == Append(acc, v.value)
         IN  IF e = <<>> THEN ParseFail
             ELSE IF e[1] = "]" THEN Parsed(Arr(a), Tail(e))
             ELSE IF e[1] = "," THEN ParseElements(Tail(e), a)
             ELSE ParseFail

\* JSON.parse: the value the whole text denotes, or a failure (the SyntaxError
\* it throws)
JsonParse(s) ==
    LET r == ParseValue(s) IN
    IF r.ok /\ SkipWs(r.rest) = <<>> THEN [ok |-> TRUE, value |-> r.value]
    ELSE ParseFail

\* variant: a text that does not parse is left in place
ParseMetadataKeep(d) ==
    IF /\ "metadata" \in DOMAIN d
       /\ Truthy(d.metadata)
       /\ TypeOf(d.metadata) = "string"
    THEN LET r == JsonParse(d.metadata.v)
         IN  IF r.ok THEN SetKey(d, "metadata", r.value) ELSE d
    ELSE d

\* createUser: metadata given as a string is parsed, or deleted when the
\* parse throws
ParseMetadata(d) ==
    IF /\ "metadata" \in DOMAIN d
       /\ Truthy(d.metadata)
       /\ TypeOf(d.metadata) = "string"
    THEN LET r == JsonParse(d.metadata.v)
         IN  IF r.ok THEN SetKey(d, "metadata", r.value)
             ELSE DeleteKey(d, "metadata")
    ELSE d

\* variant: only an embedded image is let through
FilterPictureDataOnly(d) ==
    IF /\ "picture" \in DOMAIN d
       /\ Truthy(d.picture)
       /\ TypeOf(d.picture) = "string"
    THEN IF StartsWith(d.picture.v, DataImagePrefix) THEN d
         ELSE DeleteKey(d, "picture")
    ELSE d

\* createUser: a picture string that starts with neither 'data:image' nor
\* 'http' is deleted
FilterPicture(d) ==
    IF /\ "picture" \in DOMAIN d
       /\ Truthy(d.picture)
       /\ TypeOf(d.picture) = "string"
    THEN IF StartsWith(d.picture.v, DataImagePrefix) THEN d
         ELSE IF ~StartsWith(d.picture.v, HttpPrefix) THEN DeleteKey(d, "picture")
         ELSE d
    ELSE d

\* value === '' || value === null || value === undefined
IsEmptyValue(x) ==
    \/ x.t = "string" /\ x.v = <<>>
    \/ x.t = "null"
    \/ x.t = "undefined"

\* createUser: "Remove empty fields to avoid validation issues"
RemoveEmpty(d) == [k \in {j \in DOMAIN d : ~IsEmptyValue(d[j])} |-> d[k]]

\* the object createUser hands to ApiService.post
CreateUserPayload(data) ==
    RemoveEmpty(FilterPicture(ParseMetadata(ReduceDirectory(JsonClone(data)))))

\* variant: the directory is left as given
WrapDirectorySkip(data) == data

\* updateUser, patchUser: a non-empty directory string becomes {name: string};
\* the argument object itself is changed
WrapDirectory(data) ==
    IF /\ "directory" \in DOMAIN data
       /\ TypeOf(data.directory) = "string"
       /\ Truthy(data.directory)
    THEN SetKey(data, "directory", Obj([name |-> data.directory.v]))
    ELSE data

\* a request as the transport sends it: the body is JSON.stringify(data)
Request(op, method, data) ==
    [op |-> op, method |-> method, body |-> JsonStringify(data)]

----------------------------------------------------------------------------
(* Inputs *)

UidSamples == {<<"a", "1">>, <<"1", "2">>, <<"a", " ", "b">>, <<"\t", "a">>}
TextSamples == {<<" ">>, <<" ", "a", " ">>}
EmailSamples == {<<"a">>, <<" ", "a", "@", "b">>}
DirectorySamples == {<<" ", "e", "n", "g", " ">>, <<"\t">>}
PictureSamples ==
    {HttpPrefix \o <<":", "x">>, DataImagePrefix \o <<"/", "x">>,
     <<"f", "t", "p", ":", "x">>}
DraftSamples == {<<"k">>}

\* what can be typed into the input named f
InputValues(f) ==
    CASE f = "uid" -> UidSamples
      [] f = "email" -> EmailSamples
      [] f = "directory" -> DirectorySamples
      [] f = "picture" -> PictureSamples
      [] OTHER -> TextSamples

InputNames == {"uid", "directory", "picture"} \cup TextFields

\* messages of a failed create request, as ApiService.post rejects with them
TransportErrors == {"Request timeout", "Server error. Please try again later."}

\* createUser: "Failed to create user: " + error.message
CreateErrorMessage(m) ==
    IF m = "Request timeout" THEN "Failed to create user: Request timeout"
    ELSE "Failed to create user: Server error. Please try again later."

----------------------------------------------------------------------------
(* Initial state *)

NoSubmit == [done |-> FALSE]

\* HomePage as constructed, its effect having started fetchUsers
InitPage ==
    /\ searchTerm = <<>>
    /\ loading = TRUE
    /\ homeError = Null
    /\ listCall = "pending"
    /\ deletes = <<>>
    /\ lastDelete = [done |-> FALSE]

\* no transport call under observation
NoCall == [phase |-> "idle"]

\* getAllUsers has not been called
NotCalled == [phase |-> "idle"]

Init ==
    /\ formData = initialFormState
    /\ metadataKey = <<>>
    /\ metadataValue = <<>>
    /\ tag = <<>>
    /\ isLoading = FALSE
    /\ error = Null
    /\ success = FALSE
    /\ imagePreview = Null
    /\ users = <<>>
    /\ showCreateForm = FALSE
    /\ inflight = <<>>
    /\ requests = <<>>
    /\ userData = EmptyObject
    /\ lastSubmit = NoSubmit
    /\ edits = 0
    /\ InitPage
    /\ reads = <<>>
    /\ lastUpload = [done |-> FALSE]
    /\ call = NoCall
    /\ limit = MaxRequests
    /\ getAll = NotCalled

\* a freshly mounted form: every useState at its initial value
MountForm ==
    /\ formData' = initialFormState
    /\ metadataKey' = <<>>
    /\ metadataValue' = <<>>
    /\ tag' = <<>>
    /\ isLoading' = FALSE
    /\ error' = Null
    /\ success' = FALSE
    /\ imagePreview' = Null

\* the requests of an unmounted form stay in flight, but their continuation
\* no longer reaches a mounted component
Orphaned(q) == [i \in 1..Len(q) |-> [q[i] EXCEPT !.live = FALSE]]

\* the sequence q without its i-th element
RemoveAt(q, i) == SubSeq(q, 1, i - 1) \o SubSeq(q, i + 1, Len(q))

----------------------------------------------------------------------------
(* HomePage: opening and closing the creation form *)

\* onClick={() => setShowCreateForm(!showCreateForm)}
ToggleCreateForm ==
    /\ showCreateForm' = ~showCreateForm
    /\ MountForm
    /\ inflight' = Orphaned(inflight)
    /\ UNCHANGED <<users, requests, userData, lastSubmit, edits>>
    /\ reads' = Orphaned(reads)
    /\ UNCHANGED <<pageVars, lastUpload, call, limit, getAll>>

\* onClick={() => setShowCreateForm(false)}
CloseCreateForm ==
    /\ showCreateForm
    /\ showCreateForm' = FALSE
    /\ MountForm
    /\ inflight' = Orphaned(inflight)
    /\ UNCHANGED <<users, requests, userData, lastSubmit, edits>>
    /\ reads' = Orphaned(reads)
    /\ UNCHANGED <<pageVars, lastUpload, call, limit, getAll>>

\* setUsers(prevUsers => [...prevUsers, newUser]); setShowCreateForm(false)
handleUserCreated(newUser) ==
    /\ users' = Append(users, newUser)
    /\ showCreateForm' = FALSE

----------------------------------------------------------------------------
(* The creation form: editing *)

handleInputChange(name, value) ==
    /\ showCreateForm
    /\ edits < MaxEdits
    /\ formData' = [formData EXCEPT ![name] = value]
    /\ edits' = edits + 1
    /\ UNCHANGED <<metadataKey, metadataValue, tag, isLoading, error, success,
                   imagePreview, users, showCreateForm, inflight, requests,
                   userData, lastSubmit>>
    /\ UNCHANGED <<pageVars, reads, lastUpload, call, limit, getAll>>

\* onChange={(e) => setTag(e.target.value)}
setTag(value) ==
    /\ showCreateForm
    /\ edits < MaxEdits
    /\ tag' = value
    /\ edits' = edits + 1
    /\ UNCHANGED <<formData, metadataKey, metadataValue, isLoading, error,
                   success, imagePreview, users, showCreateForm, inflight,
                   requests, userData, lastSubmit>>
    /\ UNCHANGED <<pageVars, reads, lastUpload, call, limit, getAll>>

\* variant: a value that is among the tags already is not added again
handleAddTagUnique ==
    /\ showCreateForm
    /\ edits < MaxEdits
    /\ IF StrTruthy(Trim(tag))
       THEN /\ formData' = [formData EXCEPT
                              !.tags = IF \E i \in 1..Len(@) : @[i] = tag
                                       THEN @ ELSE Append(@, tag)]
            /\ tag' = <<>>
       ELSE UNCHANGED <<formData, tag>>
    /\ edits' = edits + 1
    /\ UNCHANGED <<metadataKey, metadataValue, isLoading, error, success,
                   imagePreview, users, showCreateForm, inflight, requests,
                   userData, lastSubmit>>
    /\ UNCHANGED <<pageVars, reads, lastUpload, call, limit, getAll>>

\* the Add button of the tag editor; a blank draft is left alone
handleAddTag ==
    /\ showCreateForm
    /\ edits < MaxEdits
    /\ IF StrTruthy(Trim(tag))
       THEN /\ formData' = [formData EXCEPT !.tags = Append(@, tag)]
            /\ tag' = <<>>
       ELSE UNCHANGED <<formData, tag>>
    /\ edits' = edits + 1
    /\ UNCHANGED <<metadataKey, metadataValue, isLoading, error, success,
                   imagePreview, users, showCreateForm, inflight, requests,
                   userData, lastSubmit>>
    /\ UNCHANGED <<pageVars, reads, lastUpload, call, limit, getAll>>

\* variant: only the first tag equal to the value is taken out
handleRemoveTagFirst(tagToRemove) ==
    /\ showCreateForm
    /\ edits < MaxEdits
    /\ LET hits == {i \in 1..Len(formData.tags) : formData.tags[i] = tagToRemove}
       IN  formData' =
             [formData EXCEPT
                !.tags = IF hits = {} THEN @
                         ELSE RemoveAt(@, CHOOSE i \in hits :
                                              \A h \in hits : i <= h)]
    /\ edits' = edits + 1
    /\ UNCHANGED <<metadataKey, metadataValue, tag, isLoading, error, success,
                   imagePreview, users, showCreateForm, inflight, requests,
                   userData, lastSubmit>>
    /\ UNCHANGED <<pageVars, reads, lastUpload, call, limit, getAll>>

handleRemoveTag(tagToRemove) ==
    /\ showCreateForm
    /\ edits < MaxEdits
    /\ formData' = [formData EXCEPT
                      !.tags = SelectSeq(@, LAMBDA t : t # tagToRemove)]
    /\ edits' = edits + 1
    /\ UNCHANGED <<metadataKey, metadataValue, tag, isLoading, error, success,
                   imagePreview, users, showCreateForm, inflight, requests,
                   userData, lastSubmit>>
    /\ UNCHANGED <<pageVars, reads, lastUpload, call, limit, getAll>>

\* onChange={(e) => setMetadataKey(e.target.value)}
setMetadataKey(value) ==
    /\ showCreateForm
    /\ edits < MaxEdits
    /\ metadataKey' = value
    /\ edits' = edits + 1
    /\ UNCHANGED <<formData, metadataValue, tag, isLoading, error, success,
                   imagePreview, users, showCreateForm, inflight, requests,
                   userData, lastSubmit>>
    /\ UNCHANGED <<pageVars, reads, lastUpload, call, limit, getAll>>

\* onChange={(e) => setMetadataValue(e.target.value)}
setMetadataValue(value) ==
    /\ showCreateForm
    /\ edits < MaxEdits
    /\ metadataValue' = value
    /\ edits' = edits + 1
    /\ UNCHANGED <<formData, metadataKey, tag, isLoading, error, success,
                   imagePreview, users, showCreateForm, inflight, requests,
                   userData, lastSubmit>>
    /\ UNCHANGED <<pageVars, reads, lastUpload, call, limit, getAll>>

\* variant: the value of a key that is present already is kept
handleAddMetadataKeep ==
    /\ showCreateForm
    /\ edits < MaxEdits
    /\ IF StrTruthy(Trim(metadataKey))
       THEN /\ formData' = [formData EXCEPT
                              !.metadata = [k \in DOMAIN @ \cup {metadataKey} |->
                                              IF k \in DOMAIN @ THEN @[k]
                                              ELSE metadataValue]]
            /\ metadataKey' = <<>>
            /\ metadataValue' = <<>>
       ELSE UNCHANGED <<formData, metadataKey, metadataValue>>
    /\ edits' = edits + 1
    /\ UNCHANGED <<tag, isLoading, error, success, imagePreview, users,
                   showCreateForm, inflight, requests, userData, lastSubmit>>
    /\ UNCHANGED <<pageVars, reads, lastUpload, call, limit, getAll>>

\* the Add button of the metadata editor; a blank key is left alone
handleAddMetadata ==
    /\ showCreateForm
    /\ edits < MaxEdits
    /\ IF StrTruthy(Trim(metadataKey))
       THEN /\ formData' = [formData EXCEPT
                              !.metadata = [k \in DOMAIN @ \cup {metadataKey} |->
                                              IF k = metadataKey THEN metadataValue
                                              ELSE @[k]]]
            /\ metadataKey' = <<>>
            /\ metadataValue' = <<>>
       ELSE UNCHANGED <<formData, metadataKey, metadataValue>>
    /\ edits' = edits + 1
    /\ UNCHANGED <<tag, isLoading, error, success, imagePreview, users,
                   showCreateForm, inflight, requests, userData, lastSubmit>>
    /\ UNCHANGED <<pageVars, reads, lastUpload, call, limit, getAll>>

handleRemoveMetadata(key) ==
    /\ showCreateForm
    /\ edits < MaxEdits
    /\ formData' = [formData EXCEPT
                      !.metadata = [k \in DOMAIN @ \ {key} |-> @[k]]]
    /\ edits' = edits + 1
    /\ UNCHANGED <<metadataKey, metadataValue, tag, isLoading, error, success,
                   imagePreview, users, showCreateForm, inflight, requests,
                   userData, lastSubmit>>
    /\ UNCHANGED <<pageVars, reads, lastUpload, call, limit, getAll>>

----------------------------------------------------------------------------
(* The creation form: handleSubmit and the settling of its request *)

\* variant: the result of validateForm is ignored
SubmitProceedsAlways(fd) == TRUE

\* if (!validateForm()) return;
SubmitProceeds(fd) == validateForm(fd)

\* variant: createUser is handed the form data as they are
SubmitBodyUncleaned(fd) ==
    JsonStringify(CreateUserPayload(
        [k \in DOMAIN fd |->
            CASE k = "tags" -> Arr(fd.tags)
              [] k = "metadata" -> Obj(fd.metadata)
              [] OTHER -> Str(fd[k])]))

\* the body of the POST that createUser(cleanedData) sends for the form fd
SubmitBody(fd) == JsonStringify(CreateUserPayload(CleanedData(fd)))

\* variant: the submit button is never disabled
SubmitEnabledAlways == TRUE

\* the submit button: disabled={isLoading}
SubmitEnabled == ~isLoading

\* handleSubmit up to its await
handleSubmit ==
    /\ showCreateForm
    /\ SubmitEnabled
    /\ Len(requests) < limit
    /\ error' = ValidateError(formData)
    /\ lastSubmit' = [done |-> TRUE, form |-> formData,
                      error |-> ValidateError(formData),
                      sent |-> SubmitProceeds(formData)]
    /\ IF SubmitProceeds(formData)
       THEN /\ isLoading' = TRUE
            /\ requests' = Append(requests,
                              [op |-> "create", method |-> "POST",
                               body |-> SubmitBody(formData)])
            /\ inflight' = Append(inflight,
                              [body |-> SubmitBody(formData), live |-> TRUE])
       ELSE UNCHANGED <<isLoading, requests, inflight>>
    /\ UNCHANGED <<formData, metadataKey, metadataValue, tag, success,
                   imagePreview, users, showCreateForm, userData, edits>>
    /\ UNCHANGED <<pageVars, reads, lastUpload, call, limit, getAll>>

\* the user the server answers a create request with
ResponseUser(body) == SetKey(body, "id", Num(1))

\* handleSubmit after its await, the request having succeeded
CreateResolve(i) ==
    /\ i \in 1..Len(inflight)
    /\ handleUserCreated(ResponseUser(inflight[i].body))
    /\ IF inflight[i].live
       THEN /\ success' = TRUE
            /\ formData' = initialFormState
            /\ imagePreview' = Null
            /\ isLoading' = FALSE
            /\ UNCHANGED <<metadataKey, metadataValue, tag, error>>
       ELSE MountForm
    /\ inflight' = Orphaned(RemoveAt(inflight, i))
    /\ UNCHANGED <<requests, userData, lastSubmit, edits>>
    /\ reads' = Orphaned(reads)
    /\ UNCHANGED <<pageVars, lastUpload, call, limit, getAll>>

\* variant: a failed request empties the form as a successful one does
CreateRejectResets(i, m) ==
    /\ i \in 1..Len(inflight)
    /\ IF inflight[i].live
       THEN /\ error' = CreateErrorMessage(m)
            /\ isLoading' = FALSE
            /\ formData' = initialFormState
       ELSE UNCHANGED <<error, isLoading, formData>>
    /\ inflight' = RemoveAt(inflight, i)
    /\ UNCHANGED <<metadataKey, metadataValue, tag, success,
                   imagePreview, users, showCreateForm, requests, userData,
                   lastSubmit, edits>>
    /\ UNCHANGED <<pageVars, reads, lastUpload, call, limit, getAll>>

\* handleSubmit after its await, the request having failed with message m
CreateReject(i, m) ==
    /\ i \in 1..Len(inflight)
    /\ IF inflight[i].live
       THEN /\ error' = CreateErrorMessage(m)
            /\ isLoading' = FALSE
       ELSE UNCHANGED <<error, isLoading>>
    /\ inflight' = RemoveAt(inflight, i)
    /\ UNCHANGED <<formData, metadataKey, metadataValue, tag, success,
                   imagePreview, users, showCreateForm, requests, userData,
                   lastSubmit, edits>>
    /\ UNCHANGED <<pageVars, reads, lastUpload, call, limit, getAll>>

----------------------------------------------------------------------------
(* Direct calls of the user service with the argument object userData *)

createUser ==
    /\ Len(requests) < limit
    /\ requests' = Append(requests,
                      Request("create", "POST", CreateUserPayload(userData)))
    /\ UNCHANGED <<formData, metadataKey, metadataValue, tag, isLoading, error,
                   success, imagePreview, users, showCreateForm, inflight,
                   userData, lastSubmit, edits>>
    /\ UNCHANGED <<pageVars, reads, lastUpload, call, limit, getAll>>

updateUser ==
    /\ Len(requests) < limit
    /\ userData' = WrapDirectory(userData)
    /\ requests' = Append(requests,
                      Request("update", "PUT", WrapDirectory(userData)))
    /\ UNCHANGED <<formData, metadataKey, metadataValue, tag, isLoading, error,
                   success, imagePreview, users, showCreateForm, inflight,
                   lastSubmit, edits>>
    /\ UNCHANGED <<pageVars, reads, lastUpload, call, limit, getAll>>

patchUser ==
    /\ Len(requests) < limit
    /\ userData' = WrapDirectory(userData)
    /\ requests' = Append(requests,
                      Request("patch", "PATCH", WrapDirectory(userData)))
    /\ UNCHANGED <<formData, metadataKey, metadataValue, tag, isLoading, error,
                   success, imagePreview, users, showCreateForm, inflight,
                   lastSubmit, edits>>
    /\ UNCHANGED <<pageVars, reads, lastUpload, call, limit, getAll>>

----------------------------------------------------------------------------
(* HomePage: the list, its search box and the delete button *)

UpperCase ==
    <<"A", "B", "C", "D", "E", "F", "G", "H", "I", "J", "K", "L", "M",
      "N", "O", "P", "Q", "R", "S", "T", "U", "V", "W", "X", "Y", "Z">>
LowerCase ==
    <<"a", "b", "c", "d", "e", "f", "g", "h", "i", "j", "k", "l", "m",
      "n", "o", "p", "q", "r", "s", "t", "u", "v", "w", "x", "y", "z">>

\* String.prototype.toLowerCase, on the letters A to Z
LowerOf ==
    [c \in {UpperCase[i] : i \in 1..Len(UpperCase)} |->
        LowerCase[CHOOSE i \in 1..Len(UpperCase) : UpperCase[i] = c]]
ToLowerChar(c) == IF c \in DOMAIN LowerOf THEN LowerOf[c] ELSE c
ToLowerCase(s) == [i \in 1..Len(s) |-> ToLowerChar(s[i])]

\* s.includes(q)
IncludesString(s, q) ==
    \E i \in 0..(Len(s) - Len(q)) : SubSeq(s, i + 1, i + Len(q)) = q

\* user[f]?.toLowerCase().includes(q) || false
OptionalIncludes(user, f, q) ==
    /\ f \in DOMAIN user
    /\ user[f].t = "string"
    /\ IncludesString(ToLowerCase(user[f].v), q)

\* variant: the search term is compared as typed
filteredUsersCaseSensitive ==
    SelectSeq(users,
        LAMBDA user :
            \/ IncludesString(ToLowerCase(user.uid.v), searchTerm)
            \/ OptionalIncludes(user, "name", searchTerm)
            \/ OptionalIncludes(user, "email", searchTerm))

\* the rows of the table
filteredUsers ==
    LET searchString == ToLowerCase(searchTerm) IN
    SelectSeq(users,
        LAMBDA user :
            \/ IncludesString(ToLowerCase(user.uid.v), searchString)
            \/ OptionalIncludes(user, "name", searchString)
            \/ OptionalIncludes(user, "email", searchString))

\* the sample data, with the fields the page reads to filter and delete
sampleUsers ==
    <<[id |-> Num(1),
       uid |-> Str(<<"j", "o", "h", "n", "_", "d", "o", "e">>),
       name |-> Str(<<"J", "o", "h", "n", " ", "D", "o", "e">>),
       email |-> Str(<<"j", "o", "h", "n", ".", "d", "o", "e", "@", "e", "x", "a", "m", "p", "l", "e", ".", "c", "o", "m">>)],
      [id |-> Num(2),
       uid |-> Str(<<"j", "a", "n", "e", "_", "s", "m", "i", "t", "h">>),
       name |-> Str(<<"J", "a", "n", "e", " ", "S", "m", "i", "t", "h">>),
       email |-> Str(<<"j", "a", "n", "e", ".", "s", "m", "i", "t", "h", "@", "e", "x", "a", "m", "p", "l", "e", ".", "c", "o", "m">>)],
      [id |-> Num(3),
       uid |-> Str(<<"r", "o", "b", "e", "r", "t", "_", "j", "o", "h", "n", "s", "o", "n">>),
       name |-> Str(<<"R", "o", "b", "e", "r", "t", " ", "J", "o", "h", "n", "s", "o", "n">>),
       email |-> Str(<<"r", "o", "b", ".", "j", "o", "h", "n", "s", "o", "n", "@", "e", "x", "a", "m", "p", "l", "e", ".", "c", "o", "m">>)],
      [id |-> Num(4),
       uid |-> Str(<<"s", "a", "r", "a", "h", "_", "w", "i", "l", "l", "i", "a", "m", "s">>),
       name |-> Str(<<"S", "a", "r", "a", "h", " ", "W", "i", "l", "l", "i", "a", "m", "s">>),
       email |-> Str(<<"s", "a", "r", "a", "h", ".", "w", "i", "l", "l", "i", "a", "m", "s", "@", "e", "x", "a", "m", "p", "l", "e", ".", "c", "o", "m">>)],
      [id |-> Num(5),
       uid |-> Str(<<"m", "i", "c", "h", "a", "e", "l", "_", "b", "r", "o", "w", "n">>),
       name |-> Str(<<"M", "i", "c", "h", "a", "e", "l", " ", "B", "r", "o", "w", "n">>),
       email |-> Str(<<"m", "i", "c", "h", "a", "e", "l", ".", "b", "r", "o", "w", "n", "@", "e", "x", "a", "m", "p", "l", "e", ".", "c", "o", "m">>)]>>

\* onChange={(e) => setSearchTerm(e.target.value)}
setSearchTerm(value) ==
    /\ searchTerm' = value
    /\ UNCHANGED <<formVars, metadataKey, metadataValue, tag, users,
                   showCreateForm, inflight, requests, userData, lastSubmit,
                   edits, loading, homeError, listCall, deletes, lastDelete,
                   reads, lastUpload, call, limit, getAll>>

\* fetchUsers after its await, getAllUsers having returned data
FetchResolve(data) ==
    /\ listCall = "pending"
    /\ listCall' = "loaded"
    /\ users' = data
    /\ loading' = FALSE
    /\ UNCHANGED <<formVars, metadataKey, metadataValue, tag, showCreateForm,
                   inflight, requests, userData, lastSubmit, edits, searchTerm,
                   homeError, deletes, lastDelete, reads, lastUpload, call, limit, getAll>>

\* variant: the list is left as it is
FetchRejectKeepsList(m) ==
    /\ listCall = "pending"
    /\ listCall' = "failed"
    /\ homeError' = m
    /\ loading' = FALSE
    /\ UNCHANGED <<formVars, metadataKey, metadataValue, tag, users,
                   showCreateForm, inflight, requests, userData, lastSubmit,
                   edits, searchTerm, deletes, lastDelete, reads, lastUpload, call, limit, getAll>>

\* fetchUsers after its await, getAllUsers having thrown an Error with
\* message m
FetchReject(m) ==
    /\ listCall = "pending"
    /\ listCall' = "failed"
    /\ homeError' = m
    /\ users' = sampleUsers
    /\ loading' = FALSE
    /\ UNCHANGED <<formVars, metadataKey, metadataValue, tag, showCreateForm,
                   inflight, requests, userData, lastSubmit, edits, searchTerm,
                   deletes, lastDelete, reads, lastUpload, call, limit, getAll>>

\* handleDeleteUser up to its await: the Delete button of a row, and the
\* answer to window.confirm.  The rows are rendered when loading is false.
handleDeleteUser(uid, confirmed) ==
    /\ ~loading
    /\ \E i \in 1..Len(filteredUsers) : filteredUsers[i].uid.v = uid
    /\ Len(deletes) < MaxDeletes
    /\ IF confirmed
       THEN /\ deletes' = Append(deletes, uid)
            /\ lastDelete' = [done |-> TRUE, uid |-> uid, outcome |-> "sent"]
       ELSE /\ deletes' = deletes
            /\ lastDelete' = [done |-> TRUE, uid |-> uid,
                              outcome |-> "declined"]
    /\ UNCHANGED <<formVars, metadataKey, metadataValue, tag, users,
                   showCreateForm, inflight, requests, userData, lastSubmit,
                   edits, searchTerm, loading, homeError, listCall, reads,
                   lastUpload, call, limit, getAll>>

\* variant: only the first user with that uid is taken out
DeleteResolveFirst(i) ==
    /\ i \in 1..Len(deletes)
    /\ LET hits == {j \in 1..Len(users) : users[j].uid.v = deletes[i]}
       IN  users' = IF hits = {} THEN users
                    ELSE RemoveAt(users,
                                  CHOOSE j \in hits : \A h \in hits : j <= h)
    /\ deletes' = RemoveAt(deletes, i)
    /\ lastDelete' = [done |-> TRUE, uid |-> deletes[i], outcome |-> "deleted"]
    /\ UNCHANGED <<formVars, metadataKey, metadataValue, tag, showCreateForm,
                   inflight, requests, userData, lastSubmit, edits, searchTerm,
                   loading, homeError, listCall, reads, lastUpload, call, limit, getAll>>

\* handleDeleteUser after its await, the request having succeeded
DeleteResolve(i) ==
    /\ i \in 1..Len(deletes)
    /\ users' = SelectSeq(users, LAMBDA user : user.uid.v # deletes[i])
    /\ deletes' = RemoveAt(deletes, i)
    /\ lastDelete' = [done |-> TRUE, uid |-> deletes[i], outcome |-> "deleted"]
    /\ UNCHANGED <<formVars, metadataKey, metadataValue, tag, showCreateForm,
                   inflight, requests, userData, lastSubmit, edits, searchTerm,
                   loading, homeError, listCall, reads, lastUpload, call, limit, getAll>>

\* handleDeleteUser after its await, the request having failed with message m
DeleteReject(i, m) ==
    /\ i \in 1..Len(deletes)
    /\ homeError' = m
    /\ deletes' = RemoveAt(deletes, i)
    /\ lastDelete' = [done |-> TRUE, uid |-> deletes[i], outcome |-> "failed"]
    /\ UNCHANGED <<formVars, metadataKey, metadataValue, tag, users,
                   showCreateForm, inflight, requests, userData, lastSubmit,
                   edits, searchTerm, loading, listCall, reads, lastUpload, call, limit, getAll>>

----------------------------------------------------------------------------
(* The creation form: handleImageUpload *)

MaxImageSize == 5 * 1024 * 1024

MsgNotImage == "Please select an image file"
MsgImageSize == "Image size should be less than 5MB"
MsgReadFailed == "Failed to read the image file"

\* variant: a file of exactly 5 MB is turned away
UploadRejectionStrict(file) ==
    IF ~IncludesString(file.type, <<"i", "m", "a", "g", "e">>) THEN MsgNotImage
    ELSE IF file.size >= MaxImageSize THEN MsgImageSize
    ELSE Null

\* the message handleImageUpload turns the file away with, Null when it reads
\* it; file.type.match('image.*') holds of a type that has 'image' in it
UploadRejection(file) ==
    IF ~IncludesString(file.type, <<"i", "m", "a", "g", "e">>) THEN MsgNotImage
    ELSE IF file.size > MaxImageSize THEN MsgImageSize
    ELSE Null

\* reader.result of readAsDataURL(file)
DataUrl(file) ==
    <<"d", "a", "t", "a", ":">> \o file.type
        \o <<";", "b", "a", "s", "e", "6", "4", ",">> \o file.content

\* handleImageUpload up to the start of the read; it returns at once when no
\* file was chosen
handleImageUpload(file) ==
    /\ showCreateForm
    /\ Len(reads) < MaxReads
    /\ IF UploadRejection(file) # Null
       THEN /\ error' = UploadRejection(file)
            /\ reads' = reads
            /\ lastUpload' = [done |-> TRUE, file |-> file, accepted |-> FALSE]
       ELSE /\ error' = error
            /\ reads' = Append(reads, [data |-> DataUrl(file), live |-> TRUE])
            /\ lastUpload' = [done |-> TRUE, file |-> file, accepted |-> TRUE]
    /\ UNCHANGED <<formData, metadataKey, metadataValue, tag, isLoading,
                   success, imagePreview, users, showCreateForm, inflight,
                   requests, userData, lastSubmit, edits, pageVars, call,
                   limit, getAll>>

\* reader.onload
ReaderLoad(i) ==
    /\ i \in 1..Len(reads)
    /\ IF reads[i].live
       THEN /\ imagePreview' = reads[i].data
            /\ formData' = [formData EXCEPT !.picture = reads[i].data]
       ELSE UNCHANGED <<imagePreview, formData>>
    /\ reads' = RemoveAt(reads, i)
    /\ UNCHANGED <<metadataKey, metadataValue, tag, isLoading, error, success,
                   users, showCreateForm, inflight, requests, userData,
                   lastSubmit, edits, pageVars, lastUpload, call, limit, getAll>>

\* reader.onerror
ReaderError(i) ==
    /\ i \in 1..Len(reads)
    /\ error' = IF reads[i].live THEN MsgReadFailed ELSE error
    /\ reads' = RemoveAt(reads, i)
    /\ UNCHANGED <<formData, metadataKey, metadataValue, tag, isLoading,
                   success, imagePreview, users, showCreateForm, inflight,
                   requests, userData, lastSubmit, edits, pageVars, lastUpload,
                   call, limit, getAll>>

----------------------------------------------------------------------------
(* The transport client: fetchWithConfig *)

MsgTimeout == <<"R", "e", "q", "u", "e", "s", "t", " ", "t", "i", "m", "e", "o", "u", "t">>
MsgFetchFailed == <<"F", "a", "i", "l", "e", "d", " ", "t", "o", " ", "f", "e", "t", "c", "h">>
MsgSyntaxError == <<"U", "n", "e", "x", "p", "e", "c", "t", "e", "d", " ", "t", "o", "k", "e", "n">>
MsgServerError == <<"S", "e", "r", "v", "e", "r", " ", "e", "r", "r", "o", "r", ".", " ", "P", "l", "e", "a", "s", "e", " ", "t", "r", "y", " ", "a", "g", "a", "i", "n", " ", "l", "a", "t", "e", "r", ".">>
MsgNotFound == <<"R", "e", "s", "o", "u", "r", "c", "e", " ", "n", "o", "t", " ", "f", "o", "u", "n", "d", ".">>
MsgUnauthorized == <<"U", "n", "a", "u", "t", "h", "o", "r", "i", "z", "e", "d", ".", " ", "P", "l", "e", "a", "s", "e", " ", "l", "o", "g", " ", "i", "n", " ", "a", "g", "a", "i", "n", ".">>
MsgForbidden == <<"Y", "o", "u", " ", "d", "o", " ", "n", "o", "t", " ", "h", "a", "v", "e", " ", "p", "e", "r", "m", "i", "s", "s", "i", "o", "n", " ", "t", "o", " ", "p", "e", "r", "f", "o", "r", "m", " ", "t", "h", "i", "s", " ", "a", "c", "t", "i", "o", "n", ".">>
MsgDefault == <<"A", "n", " ", "e", "r", "r", "o", "r", " ", "o", "c", "c", "u", "r", "r", "e", "d", ".", " ", "P", "l", "e", "a", "s", "e", " ", "t", "r", "y", " ", "a", "g", "a", "i", "n", ".">>

\* the TypeError of reading a property of null
MsgNullRead == <<"C", "a", "n", "n", "o", "t", " ", "r", "e", "a", "d", " ", "p", "r", "o", "p", "e", "r", "t", "i", "e", "s", " ", "o", "f", " ", "n", "u", "l", "l">>

getErrorMessage(status) ==
    CASE status = 400 -> MsgDefault
      [] status = 401 -> MsgUnauthorized
      [] status = 403 -> MsgForbidden
      [] status = 404 -> MsgNotFound
      [] status = 500 -> MsgServerError
      [] OTHER -> MsgDefault

\* x[k] of a value that is not null: undefined unless x is an object with
\* that key (the keys of a parsed object are character sequences)
Get(x, k) ==
    IF x.t = "object" /\ k \in DOMAIN x.v THEN x.v[k] ELSE Undefined

\* the decimal digits of a natural number
RECURSIVE Decimal(_)
Decimal(n) ==
    LET d == <<"0", "1", "2", "3", "4", "5", "6", "7", "8", "9">>[(n % 10) + 1]
    IN  IF n < 10 THEN <<d>> ELSE Append(Decimal(n \div 10), d)

RECURSIVE Join(_, _)
Join(parts, sep) ==
    IF parts = <<>> THEN <<>>
    ELSE IF Len(parts) = 1 THEN parts[1]
    ELSE parts[1] \o sep \o Join(Tail(parts), sep)

\* String(x), as new Error(x) and Array.prototype.join apply it
RECURSIVE ToStr(_)
ToStr(x) ==
    CASE x.t = "string" -> x.v
      [] x.t = "number" -> Decimal(x.v)
      [] x.t = "boolean" -> IF x.v THEN <<"t", "r", "u", "e">> ELSE <<"f", "a", "l", "s", "e">>
      [] x.t = "null" -> <<"n", "u", "l", "l">>
      [] x.t = "undefined" -> <<"u", "n", "d", "e", "f", "i", "n", "e", "d">>
      [] x.t = "array" ->
            Join([i \in 1..Len(x.v) |->
                     IF x.v[i].t \in {"null", "undefined"} THEN <<>>
                     ELSE ToStr(x.v[i])], <<",">>)
      [] OTHER -> <<"[", "o", "b", "j", "e", "c", "t", " ", "O", "b", "j", "e", "c", "t", "]">>

\* errorData.errors.map((e: any) => e.message || e).join('; ')
JoinErrors(errors) ==
    IF \E i \in 1..Len(errors) : errors[i].t = "null" THEN MsgNullRead
    ELSE Join([i \in 1..Len(errors) |->
                  IF Truthy(Get(errors[i], <<"m", "e", "s", "s", "a", "g", "e">>))
                  THEN ToStr(Get(errors[i], <<"m", "e", "s", "s", "a", "g", "e">>))
                  ELSE ToStr(errors[i])], <<";", " ">>)

\* the message of the Error thrown for a response that is not ok
ErrorMessage(errorData, status) ==
    IF errorData.t = "null" THEN MsgNullRead
    ELSE IF Truthy(Get(errorData, <<"d", "e", "t", "a", "i", "l">>))
        THEN ToStr(Get(errorData, <<"d", "e", "t", "a", "i", "l">>))
    ELSE IF Truthy(Get(errorData, <<"m", "e", "s", "s", "a", "g", "e">>))
        THEN ToStr(Get(errorData, <<"m", "e", "s", "s", "a", "g", "e">>))
    ELSE IF Truthy(Get(errorData, <<"e", "r", "r", "o", "r">>))
        THEN ToStr(Get(errorData, <<"e", "r", "r", "o", "r">>))
    ELSE IF /\ Get(errorData, <<"e", "r", "r", "o", "r", "s">>).t = "array"
            /\ Len(Get(errorData, <<"e", "r", "r", "o", "r", "s">>).v) > 0
        THEN JoinErrors(Get(errorData, <<"e", "r", "r", "o", "r", "s">>).v)
    ELSE getErrorMessage(status)

\* response.ok
Ok(response) == response.status \in 200..299

NoResponse == [status |-> 0]
Pending == [kind |-> "pending"]
Resolved(x) == [kind |-> "resolved", value |-> x]
Rejected(m) == [kind |-> "rejected", message |-> m]

\* fetchWithConfig up to its first await: the timer is set, the network call
\* is started and the two are raced
fetchWithConfig ==
    /\ call.phase = "idle"
    /\ call' = [phase |-> "racing", timer |-> "set", net |-> "pending",
                response |-> NoResponse, outcome |-> Pending]
    /\ UNCHANGED <<formVars, metadataKey, metadataValue, tag, users,
                   showCreateForm, inflight, requests, userData, lastSubmit,
                   edits, pageVars, reads, lastUpload, limit, getAll>>

\* variant: a response without content is read like any other
ReceivedReadsAll(response) ==
    IF ~Ok(response)
    THEN [call EXCEPT !.phase = "readingError", !.net = "done",
                      !.response = response]
    ELSE [call EXCEPT !.phase = "readingBody", !.net = "done",
                      !.response = response]

\* what the call does with the response that has won the race
Received(response) ==
    IF ~Ok(response)
    THEN [call EXCEPT !.phase = "readingError", !.net = "done",
                      !.response = response]
    ELSE IF response.status = 204
    THEN [call EXCEPT !.phase = "settled", !.net = "done",
                      !.response = response,
                      !.outcome = Resolved(Obj(EmptyObject))]
    ELSE [call EXCEPT !.phase = "readingBody", !.net = "done",
                      !.response = response]

\* the network call resolves with a response
NetworkResponds(response) ==
    /\ call.phase # "idle"
    /\ call.net = "pending"
    /\ call' = IF call.phase = "racing" THEN Received(response)
               ELSE [call EXCEPT !.net = "done"]
    /\ UNCHANGED <<formVars, metadataKey, metadataValue, tag, users,
                   showCreateForm, inflight, requests, userData, lastSubmit,
                   edits, pageVars, reads, lastUpload, limit, getAll>>

\* the network call rejects
NetworkFails ==
    /\ call.phase # "idle"
    /\ call.net = "pending"
    /\ call' = IF call.phase = "racing"
               THEN [call EXCEPT !.phase = "settled", !.net = "done",
                                 !.outcome = Rejected(MsgFetchFailed)]
               ELSE [call EXCEPT !.net = "done"]
    /\ UNCHANGED <<formVars, metadataKey, metadataValue, tag, users,
                   showCreateForm, inflight, requests, userData, lastSubmit,
                   edits, pageVars, reads, lastUpload, limit, getAll>>

\* the timer set by setTimeout fires; it is never cleared
TimerFires ==
    /\ call.phase # "idle"
    /\ call.timer = "set"
    /\ call' = IF call.phase = "racing"
               THEN [call EXCEPT !.phase = "settled", !.timer = "fired",
                                 !.outcome = Rejected(MsgTimeout)]
               ELSE [call EXCEPT !.timer = "fired"]
    /\ UNCHANGED <<formVars, metadataKey, metadataValue, tag, users,
                   showCreateForm, inflight, requests, userData, lastSubmit,
                   edits, pageVars, reads, lastUpload, limit, getAll>>

\* response.json() has read the body: of a response that is not ok, where a
\* body that does not parse counts as {}, or of one that is
BodyRead ==
    /\ call.phase \in {"readingError", "readingBody"}
    /\ LET r == JsonParse(call.response.body)
           errorData == IF r.ok THEN r.value ELSE Obj(EmptyObject)
       IN  call' =
             [call EXCEPT
                !.phase = "settled",
                !.outcome =
                    IF call.phase = "readingError"
                    THEN Rejected(ErrorMessage(errorData, call.response.status))
                    ELSE IF r.ok THEN Resolved(r.value)
                    ELSE Rejected(MsgSyntaxError)]
    /\ UNCHANGED <<formVars, metadataKey, metadataValue, tag, users,
                   showCreateForm, inflight, requests, userData, lastSubmit,
                   edits, pageVars, reads, lastUpload, limit, getAll>>

----------------------------------------------------------------------------
(* The user service: getAllUsers *)

BaseUrl ==
    <<"h", "t", "t", "p", "s", ":", "/", "/", "8", "0", "1", "5", "b", "5", "d", "b", "c", "0", "7", "2", "4", "d", "3", "8", "8", "8", "2", "a", "c", "9", "0", "3", "9", "7", "c", "2", "7", "6", "4", "9", ".", "w", "e", "a", "v", "y", ".", "i", "o">>
UsersBase == BaseUrl \o <<"/", "u", "s", "e", "r", "s">>

\* userData.take, undefined when the call is made without it
TakeOf(data) == IF "take" \in DOMAIN data THEN data.take ELSE Undefined

\* take ? `${ENDPOINTS.USERS.BASE}?take=${take}` : ENDPOINTS.USERS.BASE
getAllUsersUrl(take) ==
    IF Truthy(take)
    THEN UsersBase \o <<"?", "t", "a", "k", "e", "=">> \o ToStr(take)
    ELSE UsersBase

\* variant: the data field is returned as it is
DataOnly(response) == Get(response, <<"d", "a", "t", "a">>)

\* response.data || []
DataOrEmpty(response) ==
    IF Truthy(Get(response, <<"d", "a", "t", "a">>))
    THEN Get(response, <<"d", "a", "t", "a">>)
    ELSE Arr(<<>>)

\* getAllUsers(userData.take) up to its await: ApiService.get starts
\* fetchWithConfig on the url
getAllUsers ==
    /\ getAll.phase = "idle"
    /\ call.phase = "idle"
    /\ getAll' = [phase |-> "waiting", url |-> getAllUsersUrl(TakeOf(userData))]
    /\ call' = [phase |-> "racing", timer |-> "set", net |-> "pending",
                response |-> NoResponse, outcome |-> Pending]
    /\ UNCHANGED <<formVars, metadataKey, metadataValue, tag, users,
                   showCreateForm, inflight, requests, userData, lastSubmit,
                   edits, pageVars, reads, lastUpload, limit>>

\* getAllUsers after its await: the error of the transport passes through,
\* reading data of the response null throws, and otherwise data is returned
getAllUsersReturn ==
    /\ getAll.phase = "waiting"
    /\ call.phase = "settled"
    /\ getAll' =
          IF call.outcome.kind = "rejected"
          THEN [phase |-> "thrown", url |-> getAll.url,
                message |-> call.outcome.message]
          ELSE IF call.outcome.value.t = "null"
          THEN [phase |-> "thrown", url |-> getAll.url, message |-> MsgNullRead]
          ELSE [phase |-> "returned", url |-> getAll.url,
                value |-> DataOrEmpty(call.outcome.value)]
    /\ UNCHANGED <<formVars, metadataKey, metadataValue, tag, users,
                   showCreateForm, inflight, requests, userData, lastSubmit,
                   edits, pageVars, reads, lastUpload, call, limit>>

----------------------------------------------------------------------------
(* HomePage: fetchUsers through the user service and the transport client *)

\* the keys of a decoded user that the page reads
KeyNames ==
    [id |-> <<"i", "d">>, uid |-> <<"u", "i", "d">>,
     name |-> <<"n", "a", "m", "e">>, email |-> <<"e", "m", "a", "i", "l">>]

\* a decoded user object as a user of the list
UserOf(x) ==
    [f \in {g \in DOMAIN KeyNames : KeyNames[g] \in DOMAIN x.v} |->
        x.v[KeyNames[f]]]

\* the array getAllUsers returned, as the list setUsers stores
UsersOf(value) == [i \in 1..Len(value.v) |-> UserOf(value.v[i])]

\* fetchUsers after its await, getAllUsers having returned or thrown
fetchUsersResume ==
    /\ getAll.phase \in {"returned", "thrown"}
    /\ IF getAll.phase = "returned"
       THEN FetchResolve(UsersOf(getAll.value))
       ELSE FetchReject(getAll.message)

----------------------------------------------------------------------------
(* Specifications *)

Range(q) == {q[i] : i \in 1..Len(q)}

\* the list page with its creation form, from construction
Next ==
    \/ ToggleCreateForm
    \/ CloseCreateForm
    \/ \E name \in InputNames : \E value \in InputValues(name) :
          handleInputChange(name, value)
    \/ \E value \in DraftSamples : setTag(value)
    \/ handleAddTag
    \/ \E t \in Range(formData.tags) : handleRemoveTag(t)
    \/ \E value \in DraftSamples : setMetadataKey(value)
    \/ \E value \in DraftSamples : setMetadataValue(value)
    \/ handleAddMetadata
    \/ \E key \in DOMAIN formData.metadata : handleRemoveMetadata(key)
    \/ handleSubmit
    \/ \E i \in 1..Len(inflight) : CreateResolve(i)
    \/ \E i \in 1..Len(inflight) : \E m \in TransportErrors : CreateReject(i, m)

Spec == Init /\ [][Next]_vars

\* validateForm and handleSubmit on every uid and email within the bounds,
\* the form being open and otherwise untouched
InitValidate ==
    /\ \E u \in StringsUpTo(MaxLen) : \E e \in StringsUpTo(EmailLen) :
          formData = [initialFormState EXCEPT !.uid = u, !.email = e]
    /\ metadataKey = <<>>
    /\ metadataValue = <<>>
    /\ tag = <<>>
    /\ isLoading = FALSE
    /\ error = Null
    /\ success = FALSE
    /\ imagePreview = Null
    /\ users = <<>>
    /\ showCreateForm = TRUE
    /\ inflight = <<>>
    /\ requests = <<>>
    /\ userData = EmptyObject
    /\ lastSubmit = NoSubmit
    /\ edits = 0
    /\ InitPage
    /\ reads = <<>>
    /\ lastUpload = [done |-> FALSE]
    /\ call = NoCall
    /\ limit = MaxRequests
    /\ getAll = NotCalled

NextValidate ==
    \/ handleSubmit
    \/ \E i \in 1..Len(inflight) : CreateResolve(i)
    \/ \E i \in 1..Len(inflight) : \E m \in TransportErrors : CreateReject(i, m)

SpecValidate == InitValidate /\ [][NextValidate]_vars

\* the user service called with every argument object within the bounds,
\* next to an open form whose directory input is filled in
Absent == [t |-> "absent"]
Eng == <<"e", "n", "g">>
DirectoryInputs ==
    {Absent, Str(<<>>), Str(Eng), Str(<<" ">> \o Eng \o <<" ">>),
     Obj([id |-> 1, name |-> Eng]), Obj([id |-> 2, name |-> <<>>]),
     Obj([id |-> 3, name |-> <<"a", " ">>])}
NameInputs == {Absent, Str(<<>>), Str(<<" ">>)}
PictureReference == Obj([id |-> 1, name |-> <<"p">>])
PictureInputs ==
    {Absent, PictureReference, Str(<<>>), Str(HttpPrefix),
     Str(<<" ">> \o HttpPrefix \o <<":", "x">>),
     Str(<<"H", "T", "T", "P", ":", "x">>),
     Str(<<"d", "a", "t", "a", ":", "x">>)}
    \cup {Str(p) : p \in PictureSamples}
\* texts given as metadata, each with what JSON.parse makes of it
JsonTexts ==
    {[text |-> <<"{", "\"", "a", "\"", ":", "1", "}">>, ok |-> TRUE,
      value |-> Obj([k \in {<<"a">>} |-> Num(1)])],
     [text |-> <<" ", "{", "\"", "a", "\"", " ", ":", "[", "1", "0", ",",
                 " ", "n", "u", "l", "l", "]", "}", "\n">>, ok |-> TRUE,
      value |-> Obj([k \in {<<"a">>} |-> Arr(<<Num(10), JsNull>>)])],
     [text |-> <<"{", "\"", "a", "\"", ":", "1">>, ok |-> FALSE],
     [text |-> <<"{", "a", ":", "1", "}">>, ok |-> FALSE],
     [text |-> <<"n", "o", "t", " ", "j", "s", "o", "n">>, ok |-> FALSE],
     [text |-> <<"{", "}">>, ok |-> TRUE, value |-> Obj(EmptyObject)],
     [text |-> <<"n", "u", "l", "l">>, ok |-> TRUE, value |-> JsNull],
     [text |-> <<"\"", "\"">>, ok |-> TRUE, value |-> Str(<<>>)]}

MetadataInputs ==
    {Absent, Obj([k \in {<<"a">>} |-> <<"v">>]), Str(<<>>)}
    \cup {Str(j.text) : j \in JsonTexts}

ServiceObject(dir, name, pic, meta) ==
    LET all == [uid |-> Str(<<"u", "1">>), directory |-> dir, name |-> name,
                picture |-> pic, metadata |-> meta]
    IN  [k \in {j \in DOMAIN all : all[j] # Absent} |-> all[k]]

FormInputs ==
    {[directory |-> <<>>, picture |-> <<>>],
     [directory |-> Eng,
      picture |-> <<" ">> \o HttpPrefix \o <<":", "x", " ">>],
     [directory |-> <<" ">> \o Eng \o <<" ">>,
      picture |-> <<"f", "t", "p", ":", "x">>],
     [directory |-> <<"\t">>, picture |-> <<" ">>]}

InitService ==
    /\ \E dir \in DirectoryInputs : \E name \in NameInputs :
       \E pic \in PictureInputs : \E meta \in MetadataInputs :
          userData = ServiceObject(dir, name, pic, meta)
    /\ \E f \in FormInputs :
          formData = [initialFormState EXCEPT !.uid = <<"a", "1">>,
                                              !.directory = f.directory,
                                              !.picture = f.picture]
    /\ metadataKey = <<>>
    /\ metadataValue = <<>>
    /\ tag = <<>>
    /\ isLoading = FALSE
    /\ error = Null
    /\ success = FALSE
    /\ imagePreview = Null
    /\ users = <<>>
    /\ showCreateForm = TRUE
    /\ inflight = <<>>
    /\ requests = <<>>
    /\ lastSubmit = NoSubmit
    /\ edits = 0
    /\ InitPage
    /\ reads = <<>>
    /\ lastUpload = [done |-> FALSE]
    /\ call = NoCall
    /\ limit = MaxRequests
    /\ getAll = NotCalled

NextService ==
    \/ createUser
    \/ updateUser
    \/ patchUser
    \/ handleSubmit
    \/ \E i \in 1..Len(inflight) : CreateResolve(i)
    \/ \E i \in 1..Len(inflight) : \E m \in TransportErrors : CreateReject(i, m)

SpecService == InitService /\ [][NextService]_vars

\* the list page from construction, the creation form staying closed
SearchSamples == {<<>>, <<"j", "o", "h", "n">>, <<"J", "O">>, <<"x", "1">>, <<"z", "z">>}
ListResponses ==
    {<<>>,
     <<[uid |-> Str(<<"j", "o", "h", "n", "_", "d", "o", "e">>), email |-> Str(<<"j", "o", "h", "n", "@", "x", ".", "c", "o", "m">>)],
       [uid |-> Str(<<"j", "a", "n", "e">>)]>>,
     <<[uid |-> Str(<<"J", "o">>), name |-> Str(<<"A", "l">>)],
       [uid |-> Str(<<"x", "1">>), name |-> Str(<<"J", "O", "e">>), email |-> Str(<<"a", "@", "b">>)],
       [uid |-> Str(<<"J", "o">>), email |-> Str(<<"x", "1", "@", "b">>)]>>}

NextList ==
    \/ \E value \in SearchSamples : setSearchTerm(value)
    \/ \E data \in ListResponses : FetchResolve(data)
    \/ \E m \in TransportErrors : FetchReject(m)
    \/ \E i \in 1..Len(users) : \E confirmed \in BOOLEAN :
          handleDeleteUser(users[i].uid.v, confirmed)
    \/ \E i \in 1..Len(deletes) : DeleteResolve(i)
    \/ \E i \in 1..Len(deletes) : \E m \in TransportErrors : DeleteReject(i, m)

SpecList == Init /\ [][NextList]_vars

\* the open creation form, with or without a picture typed in, and the files
\* handed to its file input
OneByte == <<"A">>
FileSamples ==
    {[type |-> <<"i", "m", "a", "g", "e", "/", "p", "n", "g">>, size |-> MaxImageSize, content |-> OneByte],
     [type |-> <<"i", "m", "a", "g", "e", "/", "p", "n", "g">>, size |-> MaxImageSize + 1, content |-> OneByte],
     [type |-> <<"i", "m", "a", "g", "e", "/", "g", "i", "f">>, size |-> 1, content |-> OneByte],
     [type |-> <<"t", "e", "x", "t", "/", "p", "l", "a", "i", "n">>, size |-> 1, content |-> OneByte],
     [type |-> <<>>, size |-> 1, content |-> OneByte],
     [type |-> <<"a", "p", "p", "l", "i", "c", "a", "t", "i", "o", "n", "/", "x", "-", "a", "p", "p", "l", "e", "-", "d", "i", "s", "k", "i", "m", "a", "g", "e">>, size |-> 1, content |-> OneByte]}

InitUpload ==
    /\ \E p \in {<<>>, HttpPrefix \o <<":", "x">>} :
          formData = [initialFormState EXCEPT !.picture = p]
    /\ metadataKey = <<>>
    /\ metadataValue = <<>>
    /\ tag = <<>>
    /\ isLoading = FALSE
    /\ error = Null
    /\ success = FALSE
    /\ imagePreview = Null
    /\ users = <<>>
    /\ showCreateForm = TRUE
    /\ inflight = <<>>
    /\ requests = <<>>
    /\ userData = EmptyObject
    /\ lastSubmit = NoSubmit
    /\ edits = 0
    /\ InitPage
    /\ reads = <<>>
    /\ lastUpload = [done |-> FALSE]
    /\ call = NoCall
    /\ limit = MaxRequests
    /\ getAll = NotCalled

NextUpload ==
    \/ \E file \in FileSamples : handleImageUpload(file)
    \/ \E i \in 1..Len(reads) : ReaderLoad(i)
    \/ \E i \in 1..Len(reads) : ReaderError(i)
    \/ ToggleCreateForm
    \/ CloseCreateForm

SpecUpload == InitUpload /\ [][NextUpload]_vars

\* the creation form submitted, closed, opened and submitted again, with
\* room for one request more than elsewhere
InitSubmit ==
    /\ \E u \in UidSamples : formData = [initialFormState EXCEPT !.uid = u]
    /\ metadataKey = <<>>
    /\ metadataValue = <<>>
    /\ tag = <<>>
    /\ isLoading = FALSE
    /\ error = Null
    /\ success = FALSE
    /\ imagePreview = Null
    /\ users = <<>>
    /\ showCreateForm = TRUE
    /\ inflight = <<>>
    /\ requests = <<>>
    /\ userData = EmptyObject
    /\ lastSubmit = NoSubmit
    /\ edits = 0
    /\ InitPage
    /\ reads = <<>>
    /\ lastUpload = [done |-> FALSE]
    /\ call = NoCall
    /\ limit = MaxRequests + 1
    /\ getAll = NotCalled

NextSubmit ==
    \/ ToggleCreateForm
    \/ CloseCreateForm
    \/ \E value \in UidSamples : handleInputChange("uid", value)
    \/ handleSubmit
    \/ \E i \in 1..Len(inflight) : CreateResolve(i)
    \/ \E i \in 1..Len(inflight) : \E m \in TransportErrors : CreateReject(i, m)

SpecSubmit == InitSubmit /\ [][NextSubmit]_vars

\* one call of the transport client, and the answers of the network
StatusSamples == {200, 201, 204, 400, 401, 403, 404, 500, 504}
BodySamples ==
    {<<"{", "\"", "d", "e", "t", "a", "i", "l", "\"", ":", "\"", "d", "\"", "}">>,
     <<"{", "\"", "m", "e", "s", "s", "a", "g", "e", "\"", ":", "\"", "R", "e", "q", "u", "e", "s", "t", " ", "t", "i", "m", "e", "o", "u", "t", "\"", "}">>,
     <<"{", "\"", "e", "r", "r", "o", "r", "\"", ":", "\"", "e", "\"", ",", "\"", "m", "e", "s", "s", "a", "g", "e", "\"", ":", "\"", "m", "\"", "}">>,
     <<"{", "\"", "e", "r", "r", "o", "r", "s", "\"", ":", "[", "{", "\"", "m", "e", "s", "s", "a", "g", "e", "\"", ":", "\"", "a", "\"", "}", ",", "\"", "b", "\"", "]", "}">>,
     <<"{", "}">>,
     <<>>,
     <<"o", "o", "p", "s">>,
     <<"n", "u", "l", "l">>,
     <<"{", "\"", "d", "a", "t", "a", "\"", ":", "[", "]", "}">>}
Responses == [status : StatusSamples, body : BodySamples]

NextTransport ==
    \/ fetchWithConfig
    \/ \E response \in Responses : NetworkResponds(response)
    \/ NetworkFails
    \/ TimerFires
    \/ BodyRead

SpecTransport == Init /\ [][NextTransport]_vars

\* getAllUsers called with and without a take count, and the answers of the
\* network to its request
TakeInputs ==
    {EmptyObject, [take |-> Num(0)], [take |-> Num(1)], [take |-> Num(20)]}
EnvelopeSamples ==
    {<<"{", "\"", "d", "a", "t", "a", "\"", ":", "[", "{", "\"", "u", "i", "d", "\"", ":", "\"", "b", "\"", "}", ",", "{", "\"", "u", "i", "d", "\"", ":", "\"", "a", "\"", "}", ",", "{", "\"", "u", "i", "d", "\"", ":", "\"", "b", "\"", "}", "]", ",", "\"", "c", "o", "u", "n", "t", "\"", ":", "3", "}">>,
     <<"{", "\"", "d", "a", "t", "a", "\"", ":", "[", "]", ",", "\"", "c", "o", "u", "n", "t", "\"", ":", "0", "}">>,
     <<"{", "\"", "c", "o", "u", "n", "t", "\"", ":", "0", "}">>,
     <<"{", "\"", "d", "a", "t", "a", "\"", ":", "n", "u", "l", "l", "}">>,
     <<"{", "}">>,
     <<"n", "u", "l", "l">>,
     <<"o", "o", "p", "s">>}
EnvelopeResponses == [status : {200, 204, 500}, body : EnvelopeSamples]

InitGetAll ==
    /\ userData \in TakeInputs
    /\ formData = initialFormState
    /\ metadataKey = <<>>
    /\ metadataValue = <<>>
    /\ tag = <<>>
    /\ isLoading = FALSE
    /\ error = Null
    /\ success = FALSE
    /\ imagePreview = Null
    /\ users = <<>>
    /\ showCreateForm = FALSE
    /\ inflight = <<>>
    /\ requests = <<>>
    /\ lastSubmit = NoSubmit
    /\ edits = 0
    /\ InitPage
    /\ reads = <<>>
    /\ lastUpload = [done |-> FALSE]
    /\ call = NoCall
    /\ limit = MaxRequests
    /\ getAll = NotCalled

NextGetAll ==
    \/ getAllUsers
    \/ \E response \in EnvelopeResponses : NetworkResponds(response)
    \/ NetworkFails
    \/ TimerFires
    \/ BodyRead
    \/ getAllUsersReturn

SpecGetAll == InitGetAll /\ [][NextGetAll]_vars

\* the tag editor and the metadata editor of the open form, started from
\* every tags sequence of the length MaxTags
TagValues == {<<"a">>, <<" ", "b">>, <<"c">>}
TagDrafts == TagValues \cup {<<" ">>}
KeyDrafts == {<<"a">>, <<"b", " ">>, <<" ">>}
ValueDrafts == {<<"2">>}
MetadataStarts ==
    {EmptyObject, [k \in {<<"a">>, <<"c">>} |-> IF k = <<"a">> THEN <<"1">> ELSE <<"3">>]}

RECURSIVE TagsOfLength(_)
TagsOfLength(n) ==
    IF n = 0 THEN {<<>>}
    ELSE {Append(q, t) : q \in TagsOfLength(n - 1), t \in TagValues}

InitEdit ==
    /\ \E q \in TagsOfLength(MaxTags) : \E m \in MetadataStarts :
          formData = [initialFormState EXCEPT !.tags = q, !.metadata = m]
    /\ metadataKey = <<>>
    /\ metadataValue = <<>>
    /\ tag = <<>>
    /\ isLoading = FALSE
    /\ error = Null
    /\ success = FALSE
    /\ imagePreview = Null
    /\ users = <<>>
    /\ showCreateForm = TRUE
    /\ inflight = <<>>
    /\ requests = <<>>
    /\ userData = EmptyObject
    /\ lastSubmit = NoSubmit
    /\ edits = 0
    /\ InitPage
    /\ reads = <<>>
    /\ lastUpload = [done |-> FALSE]
    /\ call = NoCall
    /\ limit = MaxRequests
    /\ getAll = NotCalled

NextEdit ==
    \/ \E value \in TagDrafts : setTag(value)
    \/ handleAddTag
    \/ \E t \in Range(formData.tags) : handleRemoveTag(t)
    \/ \E value \in KeyDrafts : setMetadataKey(value)
    \/ \E value \in ValueDrafts : setMetadataValue(value)
    \/ handleAddMetadata
    \/ \E key \in DOMAIN formData.metadata : handleRemoveMetadata(key)

SpecEdit == InitEdit /\ [][NextEdit]_vars

\* the list page while its first load is outstanding, the creation form open
\* with a uid typed in: the list load, creating and deleting, in every order
HomeUids == {<<"a", "1">>, <<"1", "2">>}
DeleteSamples ==
    {<<"a", "1">>, <<"J", "o">>, <<"j", "o", "h", "n", "_", "d", "o", "e">>}

InitHome ==
    /\ \E u \in HomeUids : formData = [initialFormState EXCEPT !.uid = u]
    /\ metadataKey = <<>>
    /\ metadataValue = <<>>
    /\ tag = <<>>
    /\ isLoading = FALSE
    /\ error = Null
    /\ success = FALSE
    /\ imagePreview = Null
    /\ users = <<>>
    /\ showCreateForm = TRUE
    /\ inflight = <<>>
    /\ requests = <<>>
    /\ userData = EmptyObject
    /\ lastSubmit = NoSubmit
    /\ edits = 0
    /\ InitPage
    /\ reads = <<>>
    /\ lastUpload = [done |-> FALSE]
    /\ call = NoCall
    /\ limit = MaxRequests + 1
    /\ getAll = NotCalled

NextHome ==
    \/ ToggleCreateForm
    \/ CloseCreateForm
    \/ handleSubmit
    \/ \E i \in 1..Len(inflight) : CreateResolve(i)
    \/ \E i \in 1..Len(inflight) : \E m \in TransportErrors : CreateReject(i, m)
    \/ \E data \in ListResponses : FetchResolve(data)
    \/ \E m \in TransportErrors : FetchReject(m)
    \/ \E uid \in DeleteSamples : \E confirmed \in BOOLEAN :
          handleDeleteUser(uid, confirmed)
    \/ \E i \in 1..Len(deletes) : DeleteResolve(i)
    \/ \E i \in 1..Len(deletes) : \E m \in TransportErrors : DeleteReject(i, m)

SpecHome == InitHome /\ [][NextHome]_vars

\* the list page from construction, its first load on its way through the
\* service and the transport, and the creation form open with a uid typed in
InitLive ==
    /\ \E u \in HomeUids : formData = [initialFormState EXCEPT !.uid = u]
    /\ metadataKey = <<>>
    /\ metadataValue = <<>>
    /\ tag = <<>>
    /\ isLoading = FALSE
    /\ error = Null
    /\ success = FALSE
    /\ imagePreview = Null
    /\ users = <<>>
    /\ showCreateForm = TRUE
    /\ inflight = <<>>
    /\ requests = <<>>
    /\ userData = EmptyObject
    /\ lastSubmit = NoSubmit
    /\ edits = 0
    /\ InitPage
    /\ reads = <<>>
    /\ lastUpload = [done |-> FALSE]
    /\ call = [phase |-> "racing", timer |-> "set", net |-> "pending",
               response |-> NoResponse, outcome |-> Pending]
    /\ limit = MaxRequests
    /\ getAll = [phase |-> "waiting", url |-> getAllUsersUrl(Undefined)]

CreateSettles ==
    \/ \E i \in 1..Len(inflight) : CreateResolve(i)
    \/ \E i \in 1..Len(inflight) : \E m \in TransportErrors : CreateReject(i, m)

NextLive ==
    \/ \E response \in EnvelopeResponses : NetworkResponds(response)
    \/ NetworkFails
    \/ TimerFires
    \/ BodyRead
    \/ getAllUsersReturn
    \/ fetchUsersResume
    \/ CloseCreateForm
    \/ handleSubmit
    \/ CreateSettles

\* the timer set by setTimeout fires, a continuation whose promise has
\* settled runs, and a create request settles; no answer of the network to
\* the list request is taken for granted
FairLive ==
    /\ WF_vars(TimerFires)
    /\ WF_vars(getAllUsersReturn)
    /\ WF_vars(fetchUsersResume)
    /\ WF_vars(CreateSettles)

SpecLive == InitLive /\ [][NextLive]_vars /\ FairLive

----------------------------------------------------------------------------
(* Properties *)

IsAllDigits(s) == \A i \in 1..Len(s) : s[i] \in DigitChars
HasWhitespace(s) == \E i \in 1..Len(s) : s[i] \in WhiteSpaceChars
IsWhitespaceOnly(s) == \A i \in 1..Len(s) : s[i] \in WhiteSpaceChars
IsTrimmed(t) ==
    Len(t) > 0 => t[1] \notin WhiteSpaceChars /\ t[Len(t)] \notin WhiteSpaceChars

\* t is s without its leading and trailing whitespace
IsTrimOf(t, s) ==
    /\ IsTrimmed(t)
    /\ \E a \in 0..Len(s) : \E b \in a..Len(s) :
          /\ t = SubSeq(s, a + 1, b)
          /\ \A i \in 1..a : s[i] \in WhiteSpaceChars
          /\ \A i \in (b + 1)..Len(s) : s[i] \in WhiteSpaceChars

CreateRequests == {r \in Range(requests) : r.op = "create"}

\* a step that hands a request to the transport
Sends == Len(requests') = Len(requests) + 1
Sent == requests'[Len(requests')]

\* a step in which handleSubmit ran on a form that fails validation
RejectsForm ==
    /\ lastSubmit'.done
    /\ lastSubmit' # lastSubmit
    /\ ~validateForm(formData)

\* C1: a create request is issued only by a step whose form state passes
\* validateForm; a submission whose validation fails issues no request, leaves
\* nothing in flight and leaves the form showing the validation message.
C1_CreateOnlyAfterValidation ==
    [][/\ Sends => /\ validateForm(formData)
                   /\ ~UidMissing(formData) /\ ~UidAllDigits(formData)
                   /\ ~UidHasWhitespace(formData) /\ ~EmailInvalid(formData)
       /\ RejectsForm => /\ requests' = requests
                         /\ inflight' = inflight
                         /\ ~isLoading'
                         /\ error' \in {MsgUidRequired, MsgUidDigits,
                                        MsgUidWhitespace, MsgEmail}]_vars

\* a submission of uid 'a1' with an email without '@' was rejected, and no
\* request was made
C1_Witness ==
    /\ lastSubmit.done
    /\ lastSubmit.form.uid = <<"a", "1">>
    /\ lastSubmit.form.email = <<"a">>
    /\ error = MsgEmail
    /\ requests = <<>>
    /\ inflight = <<>>

\* C2: validation fails with the all-digits message if and only if the uid is
\* non-empty and every character of it is a digit.
C2_AllDigitsReason ==
    lastSubmit.done =>
        (error = MsgUidDigits
            <=> Len(lastSubmit.form.uid) > 0 /\ IsAllDigits(lastSubmit.form.uid))

C2_Witness ==
    /\ lastSubmit.done
    /\ error = MsgUidDigits
    /\ Len(lastSubmit.form.uid) >= 2

\* C3: for every uid that contains a whitespace character (space, tab,
\* newline, ...) and is not already rejected as missing by the rule tested
\* before, validation fails with the whitespace message.
C3_WhitespaceReason ==
    lastSubmit.done
    /\ HasWhitespace(lastSubmit.form.uid)
    /\ ~IsWhitespaceOnly(lastSubmit.form.uid)
        => error = MsgUidWhitespace

\* C4: validation fails with the missing-uid message exactly when the uid is
\* empty after trimming, that is, when it has no character that is not
\* whitespace.
C4_MissingUidReason ==
    lastSubmit.done =>
        (error = MsgUidRequired <=> IsWhitespaceOnly(lastSubmit.form.uid))

\* a uid of whitespace only was rejected as missing
C4_Witness ==
    /\ lastSubmit.done
    /\ error = MsgUidRequired
    /\ Len(lastSubmit.form.uid) > 0

C6_EmailReason ==
    lastSubmit.done
    /\ ~UidMissing(lastSubmit.form)
    /\ ~UidAllDigits(lastSubmit.form)
    /\ ~UidHasWhitespace(lastSubmit.form)
        => LET email == lastSubmit.form.email
               bad == Len(email) > 0 /\ \A i \in 1..Len(email) : email[i] # "@"
           IN  /\ error = MsgEmail <=> bad
               /\ ~bad => lastSubmit.sent /\ lastSubmit.error = Null
               /\ bad => ~lastSubmit.sent

\* an email of whitespace only was rejected as invalid
C6_Witness ==
    /\ lastSubmit.done
    /\ error = MsgEmail
    /\ Len(lastSubmit.form.email) > 0
    /\ IsWhitespaceOnly(lastSubmit.form.email)

\* C7: every uid transmitted in a create request is non-empty, has a character
\* that is not a digit, and has no whitespace character.
C7_TransmittedUidInvariant ==
    \A r \in CreateRequests :
        /\ "uid" \in DOMAIN r.body
        /\ r.body.uid.t = "string"
        /\ Len(r.body.uid.v) > 0
        /\ ~IsAllDigits(r.body.uid.v)
        /\ ~HasWhitespace(r.body.uid.v)

FreeTextFields == TextFields \cup {"uid", "directory"}

\* C8: the body of a create request has no key whose value is null, undefined
\* or a string that is empty after trimming; every free-text field of the form
\* is sent trimmed, and is left out when it is empty after trimming (the
\* picture, when sent, is sent trimmed).
C8_NoEmptyStringInPayload ==
    /\ \A r \in CreateRequests : \A k \in DOMAIN r.body :
          /\ r.body[k].t \notin {"null", "undefined"}
          /\ r.body[k].t = "string" =>
                ~IsWhitespaceOnly(r.body[k].v) /\ IsTrimmed(r.body[k].v)
    /\ lastSubmit.done /\ lastSubmit.sent =>
          LET body == requests[Len(requests)].body
              fd == lastSubmit.form
          IN  /\ \A f \in FreeTextFields :
                    IF IsWhitespaceOnly(fd[f]) THEN f \notin DOMAIN body
                    ELSE /\ f \in DOMAIN body
                         /\ body[f].t = "string"
                         /\ IsTrimOf(body[f].v, fd[f])
              /\ "picture" \in DOMAIN body =>
                    /\ body.picture.t = "string"
                    /\ IsTrimOf(body.picture.v, fd.picture)

\* a form with a whitespace-only field and a field with surrounding whitespace
\* was sent: the first is left out, the second is sent trimmed
C8_Witness ==
    /\ lastSubmit.done
    /\ lastSubmit.sent
    /\ Len(requests) > 0
    /\ LET body == requests[Len(requests)].body
           fd == lastSubmit.form
       IN  /\ \E f \in TextFields :
                Len(fd[f]) > 0 /\ IsWhitespaceOnly(fd[f]) /\ f \notin DOMAIN body
           /\ \E g \in TextFields :
                g \in DOMAIN body /\ body[g].v # fd[g]

HasPrefix(s, p) == Len(s) >= Len(p) /\ SubSeq(s, 1, Len(p)) = p

\* s without its leading and trailing whitespace
TrimOf(s) ==
    CHOOSE t \in {SubSeq(s, a + 1, b) : a \in 0..Len(s), b \in 0..Len(s)} :
        IsTrimOf(t, s)

\* the picture createUser is called with in this step: the trimmed picture
\* input of the form unless it is blank, or the picture of the argument object
PictureGiven ==
    IF inflight' # inflight
    THEN IF IsWhitespaceOnly(formData.picture) THEN Absent
         ELSE Str(TrimOf(formData.picture))
    ELSE IF "picture" \in DOMAIN userData THEN userData.picture ELSE Absent

IsPictureString(x) ==
    /\ x.t = "string"
    /\ HasPrefix(x.v, DataImagePrefix) \/ HasPrefix(x.v, HttpPrefix)

\* C11 as stated: the create payload has the picture createUser is given,
\* unchanged, when that is a string beginning with 'data:image' or 'http', and
\* has no picture for every other value.
C11_PictureKeptOrDropped ==
    [][Sends /\ Sent.op = "create" =>
        IF IsPictureString(PictureGiven)
        THEN /\ "picture" \in DOMAIN Sent.body
             /\ Sent.body.picture = PictureGiven
        ELSE "picture" \notin DOMAIN Sent.body]_vars

\* C11 as amended: a picture string beginning with 'data:image' or 'http' is
\* in the create payload unchanged, every other picture string is left out,
\* and a picture that is not a string (a structured picture) is in the
\* payload as given.
C11_PictureByShape ==
    [][Sends /\ Sent.op = "create" =>
        IF PictureGiven # Absent
           /\ (PictureGiven.t # "string" \/ IsPictureString(PictureGiven))
        THEN /\ "picture" \in DOMAIN Sent.body
             /\ Sent.body.picture = PictureGiven
        ELSE "picture" \notin DOMAIN Sent.body]_vars

\* one create request carried an 'http' picture, typed into the form with
\* blanks around it
C11_Witness ==
    /\ lastSubmit.done
    /\ lastSubmit.form.picture = <<" ">> \o HttpPrefix \o <<":", "x", " ">>
    /\ \E r \in CreateRequests :
          /\ "picture" \in DOMAIN r.body
          /\ r.body.picture = Str(HttpPrefix \o <<":", "x">>)

NotJson == <<"n", "o", "t", " ", "j", "s", "o", "n">>

\* what JSON.parse makes of the metadata text s
ParseOf(s) ==
    IF s = <<>> THEN [text |-> s, ok |-> FALSE]
    ELSE CHOOSE j \in JsonTexts : j.text = s

\* C12: when createUser is given metadata as a string, the create request is
\* sent with the value the string denotes as JSON in its place (left out, like
\* every empty field, when that value is null or the empty string), and is
\* sent without a metadata key when the string is not JSON.
C12_MetadataParsed ==
    [][/\ Sends /\ Sent.op = "create" /\ inflight' = inflight
       /\ "metadata" \in DOMAIN userData
       /\ userData.metadata.t = "string"
       => LET j == ParseOf(userData.metadata.v)
          IN  IF j.ok /\ j.value # JsNull /\ j.value # Str(<<>>)
              THEN /\ "metadata" \in DOMAIN Sent.body
                   /\ Sent.body.metadata = j.value
              ELSE "metadata" \notin DOMAIN Sent.body]_vars

\* createUser was called with the metadata 'not json' and has sent its request,
\* which has the other keys and no metadata
C12_Witness ==
    /\ ~lastSubmit.done
    /\ "metadata" \in DOMAIN userData
    /\ userData.metadata = Str(NotJson)
    /\ Len(requests) = 1
    /\ requests[1].op = "create"
    /\ "uid" \in DOMAIN requests[1].body
    /\ "metadata" \notin DOMAIN requests[1].body

\* C13: the payload of a create request sent for the form has a metadata key
\* exactly when the form's metadata has at least one key, and a tags key
\* exactly when the form's tags are not empty; what it has under them is the
\* form's metadata and tags.
C13_MetadataAndTagsOnlyWhenFilled ==
    lastSubmit.done /\ lastSubmit.sent =>
        LET body == requests[Len(requests)].body
            fd == lastSubmit.form
        IN  /\ "metadata" \in DOMAIN body <=> DOMAIN fd.metadata # {}
            /\ "tags" \in DOMAIN body <=> Len(fd.tags) > 0
            /\ "metadata" \in DOMAIN body => body.metadata = Obj(fd.metadata)
            /\ "tags" \in DOMAIN body => body.tags = Arr(fd.tags)

\* a form with one tag and no metadata was submitted: the request has the
\* tags and no metadata key
C13_Witness ==
    /\ lastSubmit.done
    /\ lastSubmit.sent
    /\ lastSubmit.form.tags = <<<<"k">>>>
    /\ DOMAIN lastSubmit.form.metadata = {}
    /\ Len(requests) = 1
    /\ "tags" \in DOMAIN requests[1].body
    /\ "metadata" \notin DOMAIN requests[1].body

\* a uid that meets the three uid rules: not blank, not all digits, without
\* whitespace
IsValidUid(s) ==
    /\ ~IsWhitespaceOnly(s)
    /\ ~IsAllDigits(s)
    /\ ~HasWhitespace(s)

ServerAssignedFields ==
    {"id", "avatar_url", "presence", "created_at", "updated_at", "is_trashed"}

\* C14: a submission of the form in its initial state but for a valid uid
\* passes validation and sends a create request whose payload is exactly
\* {uid: that uid}: no other key, so no server-assigned and no empty optional
\* field.
C14_UidOnlyPayload ==
    /\ lastSubmit.done
    /\ IsValidUid(lastSubmit.form.uid)
    /\ lastSubmit.form = [initialFormState EXCEPT !.uid = lastSubmit.form.uid]
    => /\ lastSubmit.error = Null
       /\ lastSubmit.sent
       /\ Len(requests) > 0
       /\ LET r == requests[Len(requests)]
          IN  /\ r.op = "create"
              /\ DOMAIN r.body = {"uid"}
              /\ r.body.uid = Str(lastSubmit.form.uid)
              /\ DOMAIN r.body \cap ServerAssignedFields = {}

\* the form with only the uid 'a1' was submitted and {uid: 'a1'} was sent
C14_Witness ==
    /\ lastSubmit.done
    /\ lastSubmit.form = [initialFormState EXCEPT !.uid = <<"a", "1">>]
    /\ Len(requests) = 1
    /\ requests[1].body = [uid |-> Str(<<"a", "1">>)]

\* the elements of q that Keep holds of, in the order they have in q
Restrict(q, Keep(_)) ==
    LET M == {i \in 1..Len(q) : Keep(q[i])}
        Kth(k) == CHOOSE i \in M : Cardinality({j \in M : j < i}) = k - 1
    IN  [k \in 1..Cardinality(M) |-> q[Kth(k)]]

\* t occurs in s
IsSubstring(t, s) ==
    \E a \in 0..Len(s) : \E b \in a..Len(s) : SubSeq(s, a + 1, b) = t

\* the lower-cased query occurs in the lower-cased uid, or name, or email of
\* user; a name or email the user does not have is no match
MatchesQuery(user, query) ==
    LET q == ToLowerCase(query)
        Has(f) == f \in DOMAIN user /\ user[f].t = "string"
    IN  \/ IsSubstring(q, ToLowerCase(user.uid.v))
        \/ Has("name") /\ IsSubstring(q, ToLowerCase(user.name.v))
        \/ Has("email") /\ IsSubstring(q, ToLowerCase(user.email.v))

\* C15: the rows of the table are, in list order, exactly the users whose
\* lower-cased uid, name (when present) or email (when present) contains the
\* lower-cased search term; an absent name or email is no match; with the
\* empty search term the rows are the whole list.
C15_FilterExact ==
    /\ filteredUsers = Restrict(users, LAMBDA user : MatchesQuery(user, searchTerm))
    /\ searchTerm = <<>> => filteredUsers = users
    /\ \A i \in 1..Len(users) :
          /\ DOMAIN users[i] \cap {"name", "email"} = {}
          /\ ~IsSubstring(ToLowerCase(searchTerm), ToLowerCase(users[i].uid.v))
          => users[i] \notin Range(filteredUsers)

\* the list [john_doe (john@x.com), jane] searched for 'john' shows john_doe
\* only
C15_Witness ==
    /\ Len(users) = 2
    /\ users[2].uid.v = <<"j", "a", "n", "e">>
    /\ searchTerm = <<"j", "o", "h", "n">>
    /\ Len(filteredUsers) = 1
    /\ filteredUsers[1] = users[1]

\* C16: the step in which the initial list request fails leaves the list
\* equal to the sample users (which are not empty), an error message set and
\* loading false; and after a failed load loading stays false and the error
\* message stays set.
C16_FailedLoadFallsBack ==
    [][/\ listCall = "pending" /\ listCall' = "failed" =>
            /\ users' = sampleUsers
            /\ Len(users') > 0
            /\ homeError' # Null
            /\ loading' = FALSE
       /\ listCall' = "failed" => loading' = FALSE /\ homeError' # Null]_vars

\* the list request has timed out: the page shows the five sample users and
\* the message
C16_Witness ==
    /\ listCall = "failed"
    /\ homeError = "Request timeout"
    /\ ~loading
    /\ Len(users) = 5
    /\ users = sampleUsers

\* a step in which a delete request settles, and the uid it was for
DeleteSettles == Len(deletes') < Len(deletes)

\* C17: when a delete request for uid u succeeds, the list becomes the list
\* without the users of uid u, the others in their order; when it fails, the
\* list is unchanged and an error message is set; when the confirmation is
\* declined, the list is unchanged and no request is outstanding for it.
C17_DeleteFrame ==
    [][/\ DeleteSettles /\ lastDelete'.outcome = "deleted" =>
            /\ users' = Restrict(users,
                            LAMBDA user : user.uid.v # lastDelete'.uid)
            /\ \A i \in 1..Len(users') : users'[i].uid.v # lastDelete'.uid
       /\ DeleteSettles /\ lastDelete'.outcome = "failed" =>
            /\ users' = users
            /\ homeError' # Null
       /\ DeleteSettles => lastDelete'.outcome \in {"deleted", "failed"}
       /\ lastDelete' # lastDelete /\ lastDelete'.outcome = "declined" =>
            /\ users' = users
            /\ deletes' = deletes]_vars

\* of the list [Jo, x1, Jo] the uid Jo was deleted: x1 is what is left
C17_Witness ==
    /\ lastDelete.done
    /\ lastDelete.outcome = "deleted"
    /\ lastDelete.uid = <<"J", "o">>
    /\ listCall = "loaded"
    /\ Len(users) = 1
    /\ users[1].uid.v = <<"x", "1">>

\* a media type of the image kind
IsImageType(type) == HasPrefix(type, <<"i", "m", "a", "g", "e", "/">>)

FiveMegabytes == 5 * 1024 * 1024

\* a step in which handleImageUpload ran on a file; one in which it turned
\* the file away; one in which a read of the reader ended
Uploads == lastUpload' # lastUpload \/ Len(reads') > Len(reads)
TurnsAway == lastUpload' # lastUpload /\ ~lastUpload'.accepted
ReadEnds(i) == i \in 1..Len(reads) /\ reads' = RemoveAt(reads, i)

\* turning a file away leaves the form data and the preview as they are, and
\* an image of at most 5 MB is not turned away: its read is started, for a
\* data string that begins with 'data:image'
UploadDecision ==
    /\ TurnsAway =>
          /\ formData' = formData
          /\ imagePreview' = imagePreview
          /\ reads' = reads
    /\ /\ Uploads
       /\ IsImageType(lastUpload'.file.type)
       /\ lastUpload'.file.size <= FiveMegabytes
       => /\ lastUpload'.accepted
          /\ Len(reads') = Len(reads) + 1
          /\ HasPrefix(reads'[Len(reads')].data, DataImagePrefix)
          /\ formData' = formData

\* C18 as stated: a file turned away changes neither form data nor preview,
\* an image of at most 5 MB is accepted, and the end of its read, the form
\* still being open, has its data string in picture.
C18_UploadStored ==
    [][/\ UploadDecision
       /\ \A i \in 1..Len(reads) :
             ReadEnds(i) /\ reads[i].live =>
                formData'.picture = reads[i].data]_vars

\* C18 as amended: a file turned away changes neither form data nor preview,
\* an image of at most 5 MB is accepted, and the end of its read, the form
\* still being open, either has its data string in picture and in the
\* preview (the read succeeded) or leaves form data and preview unchanged and
\* sets the read-failure message (the read failed).
C18_UploadStoredUnlessReadFails ==
    [][/\ UploadDecision
       /\ \A i \in 1..Len(reads) :
             ReadEnds(i) /\ reads[i].live =>
                \/ /\ formData' = [formData EXCEPT !.picture = reads[i].data]
                   /\ imagePreview' = reads[i].data
                   /\ error' = error
                \/ /\ formData' = formData
                   /\ imagePreview' = imagePreview
                   /\ error' = MsgReadFailed]_vars

\* a <<"i", "m", "a", "g", "e", "/", "p", "n", "g">> of exactly 5 MB was accepted and read: its data string is the
\* picture and the preview of the open form
C18_Witness ==
    /\ showCreateForm
    /\ lastUpload.done
    /\ lastUpload.accepted
    /\ lastUpload.file.type = <<"i", "m", "a", "g", "e", "/", "p", "n", "g">>
    /\ lastUpload.file.size = FiveMegabytes
    /\ reads = <<>>
    /\ formData.picture = <<"d", "a", "t", "a", ":", "i", "m", "a", "g", "e", "/", "p", "n", "g", ";", "b", "a", "s", "e", "6", "4", ",", "A">>
    /\ imagePreview = formData.picture

\* the create requests of the mounted form that have not settled
Outstanding == {i \in 1..Len(inflight) : inflight[i].live}

\* C19: the mounted form has at most one create request outstanding, and its
\* submit control is disabled exactly as long as it has one: disabled from
\* the step that sends the request, enabled again by the step that settles it.
C19_OneCreateInFlight ==
    /\ Cardinality(Outstanding) <= 1
    /\ isLoading <=> Outstanding # {}

\* the form has sent its second request, the first having settled, and is
\* disabled again
C19_Witness ==
    /\ showCreateForm
    /\ Len(requests) = 2
    /\ Len(inflight) = 1
    /\ inflight[1].live
    /\ isLoading

\* a step in which the timer fires
TimerStep == call.phase # "idle" /\ call.timer = "set" /\ call'.timer = "fired"

\* the call has failed on a response whose status is not ok
HttpStatusError(c) ==
    /\ c.phase = "settled"
    /\ c.response # NoResponse
    /\ ~(c.response.status \in 200..299)
    /\ c.outcome.kind = "rejected"

\* a timer that fires before the network call has resolved fails the call
\* with 'Request timeout'; one that fires after it changes neither the
\* outcome nor the progress of the call
TimerRace ==
    /\ TimerStep /\ call.net = "pending" /\ call.phase = "racing" =>
          call'.outcome = Rejected(MsgTimeout) /\ call'.phase = "settled"
    /\ TimerStep /\ call.net = "done" =>
          /\ call'.outcome = call.outcome
          /\ call'.phase = call.phase
          /\ call'.response = call.response
    /\ call.phase = "settled" /\ call'.phase = "settled" =>
          call'.outcome = call.outcome

\* C20: the timer firing before the network call resolves fails the call with
\* 'Request timeout', an error that no call failing on an HTTP status has;
\* when the network call resolves first, the timer firing later leaves the
\* outcome as the response determines it.
C20_TimeoutDistinct ==
    [][/\ TimerRace
       /\ HttpStatusError(call') => call'.outcome # Rejected(MsgTimeout)]_vars

----------------------------------------------------------------------------
(* The transport client: error messages and results *)

KeyDetail == <<"d", "e", "t", "a", "i", "l">>
KeyMessage == <<"m", "e", "s", "s", "a", "g", "e">>
KeyError == <<"e", "r", "r", "o", "r">>
KeyErrors == <<"e", "r", "r", "o", "r", "s">>
KeyData == <<"d", "a", "t", "a">>

\* what the body of the response of call c says: the JSON value it denotes,
\* or the empty object for a body that is not JSON
BodyOf(c) ==
    LET r == JsonParse(c.response.body)
    IN  IF r.ok THEN r.value ELSE Obj(EmptyObject)

\* the body gives a message under key k
Gives(e, k) == Truthy(Get(e, k))

\* the entries of an errors list, each by its message when it has one, joined
JoinedErrors(errors) ==
    Join([i \in 1..Len(errors) |->
             IF Gives(errors[i], KeyMessage)
             THEN ToStr(Get(errors[i], KeyMessage))
             ELSE ToStr(errors[i])], <<";", " ">>)

\* the body has a list of errors that is not empty
GivesErrors(e) ==
    Get(e, KeyErrors).t = "array" /\ Len(Get(e, KeyErrors).v) > 0

\* the body of a failed response gives no message at all
GivesNothing(e) ==
    /\ ~Gives(e, KeyDetail)
    /\ ~Gives(e, KeyMessage)
    /\ ~Gives(e, KeyError)
    /\ ~GivesErrors(e)

\* the message of the call follows the priority detail, message, error,
\* errors, and the table of status codes when the body gives none of them
MessageByPriority(c) ==
    LET e == BodyOf(c)
        m == c.outcome.message
        status == c.response.status
    IN  /\ Gives(e, KeyDetail) => m = ToStr(Get(e, KeyDetail))
        /\ ~Gives(e, KeyDetail) /\ Gives(e, KeyMessage) =>
              m = ToStr(Get(e, KeyMessage))
        /\ ~Gives(e, KeyDetail) /\ ~Gives(e, KeyMessage) /\ Gives(e, KeyError) =>
              m = ToStr(Get(e, KeyError))
        /\ /\ ~Gives(e, KeyDetail)
           /\ ~Gives(e, KeyMessage)
           /\ ~Gives(e, KeyError)
           /\ GivesErrors(e)
           => m = JoinedErrors(Get(e, KeyErrors).v)
        /\ GivesNothing(e) =>
              /\ status = 401 => m = MsgUnauthorized
              /\ status = 403 => m = MsgForbidden
              /\ status = 404 => m = MsgNotFound
              /\ status = 500 => m = MsgServerError
              /\ status \notin {401, 403, 404, 500} => m = MsgDefault

\* the priority of messages holds of every failed response whose body is not
\* the JSON text null
PriorityUnlessNull ==
    HttpStatusError(call) /\ BodyOf(call).t # "null" => MessageByPriority(call)

\* C21: a call that fails on a response with a status outside 2xx fails with
\* the message taken from the body's detail, else message, else error, else
\* its non-empty errors list joined, and with the fixed message of the status
\* code (the default message for any other status) when the body gives none
\* of them, a body that is not JSON included.
C21_ErrorMessagePriority ==
    HttpStatusError(call) => MessageByPriority(call)

\* the call has received a response with a status in 2xx
Succeeded(c) ==
    /\ c.phase # "idle"
    /\ c.response # NoResponse
    /\ c.response.status \in 200..299

\* C22: a response with status 204 settles the call with the empty object
\* and its body is never read, whatever it holds; the body of any other 2xx
\* response is read, and the call returns the JSON value the body denotes
\* (a body that is not JSON fails the call with the parser's error instead).
C22_NoContentNotParsed ==
    /\ Succeeded(call) /\ call.response.status = 204 =>
          /\ call.phase = "settled"
          /\ call.outcome = Resolved(Obj(EmptyObject))
    /\ Succeeded(call) /\ call.response.status # 204 =>
          /\ call.phase \in {"readingBody", "settled"}
          /\ call.phase = "settled" /\ JsonParse(call.response.body).ok =>
                call.outcome = Resolved(JsonParse(call.response.body).value)
          /\ call.phase = "settled" /\ ~JsonParse(call.response.body).ok =>
                call.outcome.kind = "rejected"

\* a 204 response whose body is not JSON has settled the call with the empty
\* object, and the timer that fired afterwards has left it so
C22_Witness ==
    /\ Succeeded(call)
    /\ call.phase = "settled"
    /\ call.response.status = 204
    /\ ~JsonParse(call.response.body).ok
    /\ call.outcome = Resolved(Obj(EmptyObject))
    /\ call.timer = "fired"

----------------------------------------------------------------------------
(* The list operation *)

\* the envelope the transport has handed to getAllUsers
Envelope == call.outcome.value

\* the url carries a query
HasQuery(url) == Includes(url, "?")

\* C24: getAllUsers returns the users of the envelope's data field, as many
\* and in the same order, and the empty sequence when the envelope has no
\* data field; its url carries take as a query parameter only when a take
\* count is given, and then the count given (a count of 0 is not sent).
C24_ListUnwrapsEnvelope ==
    /\ getAll.phase = "returned" =>
          /\ KeyData \in DOMAIN Envelope.v /\ Envelope.v[KeyData].t = "array" =>
                /\ getAll.value.t = "array"
                /\ Len(getAll.value.v) = Len(Envelope.v[KeyData].v)
                /\ \A i \in 1..Len(getAll.value.v) :
                      getAll.value.v[i] = Envelope.v[KeyData].v[i]
          /\ KeyData \notin DOMAIN Envelope.v => getAll.value = Arr(<<>>)
    /\ getAll.phase # "idle" =>
          /\ HasQuery(getAll.url) => "take" \in DOMAIN userData
          /\ "take" \notin DOMAIN userData => getAll.url = UsersBase
          /\ "take" \in DOMAIN userData /\ userData.take.v > 0 =>
                getAll.url = UsersBase \o <<"?", "t", "a", "k", "e", "=">>
                                 \o Decimal(userData.take.v)

\* a call with take 20 has returned the three users of the envelope, the
\* first and the last with the same uid
C24_Witness ==
    /\ getAll.phase = "returned"
    /\ userData = [take |-> Num(20)]
    /\ HasQuery(getAll.url)
    /\ Len(getAll.value.v) = 3
    /\ getAll.value.v[1] = getAll.value.v[3]
    /\ getAll.value.v[1] # getAll.value.v[2]

----------------------------------------------------------------------------
(* The tag editor and the metadata editor *)

\* the sequence q without the entries equal to t, the others in their order
RECURSIVE Without(_, _)
Without(q, t) ==
    IF q = <<>> THEN <<>>
    ELSE IF Head(q) = t THEN Without(Tail(q), t)
    ELSE <<Head(q)>> \o Without(Tail(q), t)

\* the number of entries of q equal to t
RECURSIVE Occurrences(_, _)
Occurrences(q, t) ==
    IF q = <<>> THEN 0
    ELSE (IF Head(q) = t THEN 1 ELSE 0) + Occurrences(Tail(q), t)

\* C25: removing a tag value leaves no tag equal to it and keeps every other
\* tag, in the original order; nothing else of the form data changes.
C25_RemoveTagAllOccurrences ==
    [][\A t \in TagValues :
          handleRemoveTag(t) =>
             /\ \A i \in 1..Len(formData'.tags) : formData'.tags[i] # t
             /\ formData'.tags = Without(formData.tags, t)
             /\ Len(formData'.tags) =
                   Len(formData.tags) - Occurrences(formData.tags, t)
             /\ formData' = [formData EXCEPT !.tags = formData'.tags]]_vars

\* the first edit of a run has taken two or more tags out at once, and tags
\* are left
C25_Witness ==
    /\ edits = 1
    /\ Len(formData.tags) > 0
    /\ Len(formData.tags) <= MaxTags - 2

\* C26: adding a tag whose draft is not blank puts exactly the draft, as
\* typed, at the end of the tags, whether or not it is among them already,
\* leaves the tags before it as they were and empties the draft; nothing else
\* of the form data changes.
C26_AddTagAppends ==
    [][handleAddTag /\ Trim(tag) # <<>> =>
          /\ Len(formData'.tags) = Len(formData.tags) + 1
          /\ formData'.tags[Len(formData'.tags)] = tag
          /\ \A i \in 1..Len(formData.tags) : formData'.tags[i] = formData.tags[i]
          /\ tag' = <<>>
          /\ formData' = [formData EXCEPT !.tags = formData'.tags]]_vars

\* a tag equal to the first one has been added at the end, and the draft is
\* empty
C26_Witness ==
    /\ Len(formData.tags) = MaxTags + 1
    /\ formData.tags[MaxTags + 1] = formData.tags[1]
    /\ tag = <<>>

\* the effect of adding the metadata entry of the drafts: the value is stored
\* under the key and every other key keeps its value
EntryStored ==
    /\ DOMAIN formData'.metadata = DOMAIN formData.metadata \cup {metadataKey}
    /\ formData'.metadata[metadataKey] = metadataValue
    /\ \A k \in DOMAIN formData.metadata \ {metadataKey} :
          formData'.metadata[k] = formData.metadata[k]
    /\ formData' = [formData EXCEPT !.metadata = formData'.metadata]

\* C27 as stated: adding a metadata entry stores the value under the key for
\* any key and value, with no validation, overwriting the value the key had
\* and leaving every other key unchanged.
C27_MetadataAnyKey ==
    [][handleAddMetadata => EntryStored]_vars

\* C27: adding a metadata entry whose key is not blank stores the value under
\* the key as typed, overwriting the value the key had and leaving every
\* other key unchanged, and empties both drafts; with a blank key (empty or
\* whitespace only) nothing is added and the drafts stay.
C27_MetadataNonBlankKey ==
    [][handleAddMetadata =>
          IF Trim(metadataKey) # <<>>
          THEN EntryStored /\ metadataKey' = <<>> /\ metadataValue' = <<>>
          ELSE /\ formData' = formData
               /\ metadataKey' = metadataKey
               /\ metadataValue' = metadataValue]_vars

\* the value of a key the run started with has been overwritten, the other
\* key has kept its value, and the drafts are empty
C27_Witness ==
    /\ DOMAIN formData.metadata = {<<"a">>, <<"c">>}
    /\ formData.metadata[<<"a">>] = <<"2">>
    /\ formData.metadata[<<"c">>] = <<"3">>
    /\ metadataKey = <<>>
    /\ metadataValue = <<>>

----------------------------------------------------------------------------
(* The list page and its form: failures, and the list under creation *)

CreateMessages == {CreateErrorMessage(m) : m \in TransportErrors}

\* the step starts no request
StartsNoRequest ==
    /\ requests' = requests
    /\ Len(inflight') <= Len(inflight)
    /\ Len(deletes') <= Len(deletes)
    /\ listCall' = "pending" => listCall = "pending"

\* a failed list load and a failed delete leave the page with its loading
\* flag down and a message in its error state, and start no request
PageFailureShown ==
    /\ (\E m \in TransportErrors : FetchReject(m)) =>
          loading' = FALSE /\ homeError' \in TransportErrors /\ StartsNoRequest
    /\ (\E i \in 1..Len(deletes) : \E m \in TransportErrors : DeleteReject(i, m)) =>
          loading' = FALSE /\ homeError' \in TransportErrors /\ StartsNoRequest

\* a failed create leaves the form with its busy flag down, its submit
\* control enabled and a message in its error state, and starts no request
CreateFailureShown(i) ==
    (\E m \in TransportErrors : CreateReject(i, m)) =>
        /\ isLoading' = FALSE
        /\ SubmitEnabled'
        /\ error' \in CreateMessages
        /\ StartsNoRequest

\* every failure is shown, those of the create requests of the open form
\* among them
FailuresShownWhileOpen ==
    [][/\ PageFailureShown
       /\ \A i \in 1..Len(inflight) : inflight[i].live => CreateFailureShown(i)
       /\ Len(requests') <= Len(requests) + 1]_vars

\* C23: a failed list load, a failed create and a failed delete each leave
\* their view operable (loading, isLoading false, the submit control enabled)
\* with a message in its error state, and no step that settles a request
\* starts another; a user action starts at most one request.
C23_FailuresDisplayed ==
    [][/\ PageFailureShown
       /\ \A i \in 1..Len(inflight) : CreateFailureShown(i)
       /\ Len(requests') <= Len(requests) + 1]_vars

\* a successful delete takes users out of the list
DeleteSucceeds == \E i \in 1..Len(deletes) : DeleteResolve(i)

\* every user of the list is in the list after the step
UsersKept == \A i \in 1..Len(users) : \E j \in 1..Len(users') : users'[j] = users[i]

\* apart from the completion of the list load, only a delete takes a user
\* out of the list
KeptBetweenLoads ==
    [][listCall' = listCall /\ ~DeleteSucceeds => UsersKept]_vars

\* C28: a user in the list, appended by a successful create, stays in it
\* until a delete takes it out: in particular the completion of the list
\* load, with the server's list or with the sample data, keeps every user
\* that was appended while the load was outstanding.
C28_CreatedUserKept ==
    [][~DeleteSucceeds => UsersKept]_vars

\* C29: a create request that fails leaves the form data, the user list and
\* the open form as they are (the callback has not run); a create request
\* that succeeds appends the returned user at the end of the list, closes the
\* form and leaves its data at the initial state; no other step adds a user
\* behind the users of the list.
C29_FailedCreateFrame ==
    [][/\ \A i \in 1..Len(inflight) :
             (\E m \in TransportErrors : CreateReject(i, m)) =>
                /\ formData' = formData
                /\ users' = users
                /\ showCreateForm' = showCreateForm
                /\ success' = success
                /\ imagePreview' = imagePreview
       /\ \A i \in 1..Len(inflight) :
             CreateResolve(i) =>
                /\ Len(users') = Len(users) + 1
                /\ SubSeq(users', 1, Len(users)) = users
                /\ users'[Len(users')] = ResponseUser(inflight[i].body)
                /\ ~showCreateForm'
                /\ formData' = initialFormState
       /\ Len(users') > Len(users) /\ listCall' = listCall =>
             \E i \in 1..Len(inflight) : CreateResolve(i)]_vars

\* the create request of the open form has failed: the form is open with the
\* uid it was submitted with, idle again, and shows the message of the
\* failure; no user was added
C29_Witness ==
    /\ showCreateForm
    /\ error \in CreateMessages
    /\ formData.uid = <<"a", "1">>
    /\ ~isLoading
    /\ inflight = <<>>
    /\ Len(requests) = 1
    /\ users = <<>>

----------------------------------------------------------------------------
(* Termination of the requests *)

\* the response of the list request has arrived and its body is being read
BodyAwaited == call.phase \in {"readingError", "readingBody"}

\* the busy flags clear in every run in which the body of a response that
\* has arrived is read in the end
SettlesUnlessBodyStalls ==
    \/ <>[]BodyAwaited
    \/ (loading ~> ~loading) /\ (isLoading ~> ~isLoading)

\* C30: the loading flag of the list view becomes false after the initial
\* list load, and the isLoading flag of the form becomes false after every
\* create attempt, the 30-second timer firing in the end.
C30_BusyFlagsClear ==
    (loading ~> ~loading) /\ (isLoading ~> ~isLoading)

====
